---- MODULE Spec2Model ----
(***************************************************************************)
(* NodeForge: the graph store (modules -> nodes -> ports -> connection     *)
(* records), its DOM projection (node elements, port elements, connection  *)
(* visuals) and the public operations that keep the two in step.           *)
(*                                                                         *)
(* Configuration modelled: sequential ids, typenode = false,               *)
(* reroute_fix_curvature = false, zoom 1.  editor_mode, reroute and        *)
(* force_first_input are options set before the editor is used.            *)
(* Pointer coordinates are kept in one dimension (x).  A connection        *)
(* record without points and one with an empty points list are not told    *)
(* apart.                                                                  *)
(*                                                                         *)
(* JavaScript values that the code compares with === are kept with their   *)
(* type: a node id is a number (what addNode returns) or a string (its     *)
(* string form, what the DOM class names and the stored records hold).     *)
(* Port names input_<n> / output_<n> are modelled by their number n.       *)
(* Object keys of the port maps are kept as a set; the code's iteration    *)
(* over them is taken in ascending port number.                            *)
(***************************************************************************)
EXTENDS Integers, Sequences, FiniteSets, TLC

VARIABLES
    nodeforge,   \* this.nodeforge.nodeforge: module name -> node key -> node
    module,      \* this.module, the active module
    nodeId,      \* this.nodeId, the sequential id counter
    precanvas,   \* the DOM under the container
    heap,        \* custom-data objects by reference
    client,      \* the object the caller holds from a read, or handed to import
    events,      \* the events the last call dispatched, in order
    last,        \* the last call: name, arguments, return value, thrown or not
    removed,     \* history: the ids removeNodeId has deleted so far
    editor_mode, \* this.editor_mode
    reroute,     \* this.reroute
    ui,          \* the pointer fields: selections, gesture flags, positions,
                 \* the pointer cache, and the option force_first_input
    listeners    \* eventManager.events: event name -> its listeners array

vars == <<nodeforge, module, nodeId, precanvas, heap, client, events, last, removed,
          editor_mode, reroute, ui, listeners>>

(***************************************************************************)
(* Bounds of the model.                                                    *)
(***************************************************************************)
MaxId == 2
MaxPort == 2
MaxConns == 2
\* pointer coordinates run over 0..MaxX
MaxX == 1
\* points a connection record can carry
MaxPoints == 2
\* the zoom values reached, in tenths
MaxZoom == 11
MinZoom == 9
\* the callbacks a caller registers, and the longest listeners array
MaxListeners == 3

(***************************************************************************)
(* Program constants.                                                      *)
(***************************************************************************)
START_ID == 1

DEFAULT_MODULE == "Home"

ModuleNames == {"Home", "Other"}

NodeNames == {"process"}

HtmlValues == {"", "<div></div>"}

DataValues == {0, 1}

\* enough cells for a full store (an id may come to exist in both modules),
\* two full copies on the caller's side, and the object a call brings
Refs == 1..(3 * Cardinality(ModuleNames) * MaxId + 1)

(***************************************************************************)
(* Typed JavaScript values.                                                *)
(***************************************************************************)
Num(k) == [t |-> "number", v |-> k]

Str(k) == [t |-> "string", v |-> k]

Undefined == [t |-> "undefined", v |-> 0]

True == [t |-> "boolean", v |-> 1]

False == [t |-> "boolean", v |-> 0]

Object == [t |-> "object", v |-> 0]

\* x.toString(): a number becomes its decimal string, a string stays itself
toString(x) == Str(x.v)

\* `${prefix}${id}` then extractNodeId: the text of the id, always a string
extractNodeId(k) == Str(k)

\* a === b
StrictEq(a, b) == a.t = b.t /\ a.v = b.v

\* key == id, where key is an object key (a string)
LooseEq(key, id) == key = id.v

(***************************************************************************)
(* Sequence helpers (Array.prototype).                                     *)
(***************************************************************************)
\* arr.findIndex(pred), 0-based, -1 when absent; Hit is the set of matching
\* 1-based positions
findIndex(Hit) == IF Hit = {} THEN -1 ELSE (CHOOSE i \in Hit : \A j \in Hit : i <= j) - 1

RemoveAt(s, i) == [j \in 1..(Len(s) - 1) |-> IF j < i THEN s[j] ELSE s[j + 1]]

\* arr.splice(index, 1): a negative index counts from the end
splice1(s, index) ==
    IF Len(s) = 0 THEN s
    ELSE IF index < 0 THEN RemoveAt(s, Len(s))
    ELSE IF index + 1 > Len(s) THEN s
    ELSE RemoveAt(s, index + 1)

Range(s) == {s[i] : i \in DOMAIN s}

Max(S) == CHOOSE x \in S : \A y \in S : y <= x

Min(S) == CHOOSE x \in S : \A y \in S : x <= y

\* the elements of a finite set of integers in ascending order
RECURSIVE Ascending(_)
Ascending(S) == IF S = {} THEN <<>> ELSE <<Min(S)>> \o Ascending(S \ {Min(S)})

RECURSIVE SumLens(_, _)
SumLens(f, D) ==
    IF D = {} THEN 0
    ELSE LET d == CHOOSE x \in D : TRUE IN Len(f[d]) + SumLens(f, D \ {d})

(***************************************************************************)
(* The store.  nf is this.nodeforge.nodeforge: module name -> node key ->  *)
(* node record.  A node key is the text of an integer, kept as the integer.*)
(***************************************************************************)
EmptyMap == [x \in {} |-> 0]

EmptyModule == EmptyMap

PortMap(n) == [p \in 1..n |-> <<>>]

SetKey(f, k, val) == [x \in (DOMAIN f) \cup {k} |-> IF x = k THEN val ELSE f[x]]

DelKey(f, k) == [x \in (DOMAIN f) \ {k} |-> f[x]]

HasNode(nf, m, k) == m \in DOMAIN nf /\ k \in DOMAIN nf[m]

AllNodeIds(nf) == UNION {DOMAIN nf[m] : m \in DOMAIN nf}

\* StateManager.getModuleFromNodeId: the module whose data has a key == id;
\* "undefined" when none has.  The loop does not stop at a match, so the
\* last module in key order wins; "Home" is always the first key.
getModuleFromNodeId(nf, id) ==
    LET ms == {m \in DOMAIN nf : \E key \in DOMAIN nf[m] : LooseEq(key, id)}
    IN IF ms = {} THEN "undefined"
       ELSE IF "Other" \in ms THEN "Other" ELSE CHOOSE m \in ms : TRUE

NodePairs(nf) == {p \in (DOMAIN nf) \X AllNodeIds(nf) : p[2] \in DOMAIN nf[p[1]]}

RECURSIVE CountRecords(_, _, _)
CountRecords(nf, D, side) ==
    IF D = {} THEN 0
    ELSE LET d == CHOOSE x \in D : TRUE
             ports == IF side = "outputs" THEN nf[d[1]][d[2]].outputs ELSE nf[d[1]][d[2]].inputs
         IN SumLens(ports, DOMAIN ports) + CountRecords(nf, D \ {d}, side)

\* number of output-side / input-side connection records in the store
OutRecords(nf) == CountRecords(nf, NodePairs(nf), "outputs")

InRecords(nf) == CountRecords(nf, NodePairs(nf), "inputs")

(***************************************************************************)
(* The DOM under the container: node elements with their port elements in  *)
(* document order, and the connection visuals in document order.  A visual *)
(* carries the class list connection, node_in_node-<in>, node_out_node-    *)
(* <out>, <output class>, <input class>.                                   *)
(***************************************************************************)
EmptyDom == [nodes |-> EmptyMap, connections |-> <<>>]

\* pts: the point elements the connection element holds
Visual(in, out, oc, ic) == [in |-> in, out |-> out, oc |-> oc, ic |-> ic, pts |-> 0]

\* the port element with class output_<oc> / input_<ic> resolves inside the
\* node element #node-<k>
HasOutputEl(dom, k, oc) == k \in DOMAIN dom.nodes /\ oc \in Range(dom.nodes[k].outputs)

HasInputEl(dom, k, ic) == k \in DOMAIN dom.nodes /\ ic \in Range(dom.nodes[k].inputs)

\* ConnectionManager.updateConnectionNodes('node-<k>') changes no modelled
\* state (it rewrites path geometry); it throws a TypeError when a visual
\* touching the node has an endpoint node element or port element that does
\* not resolve: null.querySelectorAll, or getElementCenterCoords(undefined).
updateConnectionNodesThrows(dom, k) ==
    \E i \in DOMAIN dom.connections :
        LET v == dom.connections[i]
        IN /\ (v.out = k \/ v.in = k)
           /\ ~(HasOutputEl(dom, v.out, v.oc) /\ HasInputEl(dom, v.in, v.ic))

\* ConnectionManager.updateConnectionNodes('node-<k>')
updateConnectionNodes(s, k) ==
    IF updateConnectionNodesThrows(s.dom, k) THEN [s EXCEPT !.threw = TRUE] ELSE s

(***************************************************************************)
(* Elements an event can land on, and the pointer fields.  An element is   *)
(* told by its first class (its tag name for a form field) and by where    *)
(* it sits: the node, the port, or the connection element and the position *)
(* among its points.                                                       *)
(***************************************************************************)
El(tag, a, b, c, d, n) == [tag |-> tag, a |-> a, b |-> b, c |-> c, d |-> d, n |-> n]

Null == El("null", 0, 0, 0, 0, 0)

Container == El("parent-nodeforge", 0, 0, 0, 0, 0)

Precanvas == El("nodeforge", 0, 0, 0, 0, 0)

NodeEl(k) == El("nodeforge-node", k, 0, 0, 0, 0)

\* an element inside the content of node k, told by its tag name
FieldEl(k, tag) == El(tag, k, 0, 0, 0, 0)

InputEl(k, q) == El("input", k, q, 0, 0, 0)

OutputEl(k, p) == El("output", k, p, 0, 0, 0)

\* the path and the n-th point of the connection element v
PathEl(v) == El("main-path", v.in, v.out, v.oc, v.ic, 0)

PointEl(v, n) == El("point", v.in, v.out, v.oc, v.ic, n)

DeleteEl == El("nodeforge-delete", 0, 0, 0, 0, 0)

\* ZOOM_CONFIG, in tenths: DEFAULT 1, MIN 0.5, MAX 1.6, STEP 0.1, LAST_VALUE 1
ZOOM_DEFAULT == 10

ZOOM_MIN == 5

ZOOM_MAX == 16

ZOOM_STEP == 1

ZOOM_LAST_VALUE == 10

\* the constructor's values of the pointer fields
NoPointer ==
    [ele_selected |-> Null, node_selected |-> Null, connection_selected |-> Null,
     first_click |-> Null, drag |-> FALSE, drag_point |-> FALSE,
     editor_selected |-> FALSE, connection |-> FALSE, connection_ele |-> FALSE,
     lastSnapTarget |-> Null, snap_hover |-> {}, deletebox |-> Null,
     canvas_x |-> 0, pos_x |-> 0, pos_x_start |-> 0,
     evCache |-> FALSE, force_first_input |-> FALSE,
     zoom |-> ZOOM_DEFAULT, zoom_last_value |-> ZOOM_LAST_VALUE]

(***************************************************************************)
(* One call in progress: the state it has reached so far, the events it    *)
(* has dispatched, its return value, and whether it has thrown.  A call    *)
(* that throws keeps the writes it made before the throw.  seen: for each  *)
(* event dispatched, the store and the active module as they stood when    *)
(* the listeners were called.                                              *)
(***************************************************************************)
Cur ==
    [nf |-> nodeforge, mod |-> module, nid |-> nodeId, dom |-> precanvas,
     hp |-> heap, cl |-> client, ev |-> <<>>, threw |-> FALSE, ret |-> Undefined,
     mode |-> editor_mode, rr |-> reroute, ui |-> ui, seen |-> <<>>]

Throw(s) == [s EXCEPT !.threw = TRUE]

\* EventManager.dispatch(event, details): the listeners run inside the call
dispatch(s, e) ==
    [s EXCEPT !.ev = Append(@, e), !.seen = Append(@, [nf |-> s.nf, mod |-> s.mod])]

Return(s, v) == [s EXCEPT !.ret = v]

(***************************************************************************)
(* The heap of custom-data objects.  A node's data field is a reference.   *)
(***************************************************************************)
StoreRefs(nf) == {nf[p[1]][p[2]].data : p \in NodePairs(nf)}

ClientRefs(cl) ==
    IF cl.kind = "node" THEN {cl.node.data}
    ELSE IF cl.kind = "data" THEN StoreRefs(cl.data)
    ELSE {}

\* unreferenced cells are cleared, so that garbage does not tell states apart
Collect(hp, nf, cl) ==
    [r \in Refs |-> IF r \in StoreRefs(nf) \cup ClientRefs(cl) THEN hp[r] ELSE 0]

NoClient == [kind |-> "none", node |-> EmptyMap, data |-> EmptyMap]

(***************************************************************************)
(* NodeManager.addNode                                                     *)
(***************************************************************************)
\* NodeForgeContext.getNextNodeId: return this.nodeforge.nodeId++
getNextNodeId(s) == [Return(s, Num(s.nid)) EXCEPT !.nid = s.nid + 1]

addNode(s0, name, num_in, num_out, data, html) ==
    LET s == getNextNodeId(s0)
        newNodeId == s.ret.v
        el == [inputs |-> Ascending(1..num_in), outputs |-> Ascending(1..num_out)]
        s1 == [s EXCEPT !.dom.nodes = SetKey(@, newNodeId, el)]
        json == [id |-> newNodeId, name |-> name, data |-> data, html |-> html, pos_x |-> 0,
                 inputs |-> PortMap(num_in), outputs |-> PortMap(num_out)]
    IN IF s.mod \notin DOMAIN s.nf THEN Throw(s1)
       ELSE dispatch([s1 EXCEPT !.nf[s.mod] = SetKey(@, newNodeId, json)], "nodeCreated")

(***************************************************************************)
(* ConnectionManager.addConnection                                         *)
(***************************************************************************)
\* variant: the module check lets every pair of nodes through
sameModule_any(nodeOneModule, nodeTwoModule) == TRUE

\* line 141: nodeOneModule === nodeTwoModule
sameModule(nodeOneModule, nodeTwoModule) == nodeOneModule = nodeTwoModule

addConnection(s, id_output, id_input, output_class, input_class) ==
    LET nodeOneModule == getModuleFromNodeId(s.nf, id_output)
        nodeTwoModule == getModuleFromNodeId(s.nf, id_input)
    IN IF ~sameModule(nodeOneModule, nodeTwoModule) THEN Return(s, False)
       ELSE IF ~HasNode(s.nf, nodeOneModule, id_output.v) THEN Throw(s)
       ELSE LET dataNode == s.nf[nodeOneModule][id_output.v]
            IN IF output_class \notin DOMAIN dataNode.outputs THEN Throw(s)
               ELSE LET conns == dataNode.outputs[output_class]
                        exist == \E i \in DOMAIN conns :
                                    /\ StrictEq(conns[i].node, id_input)
                                    /\ conns[i].output = input_class
                        s1 == [s EXCEPT !.nf[nodeOneModule][id_output.v].outputs[output_class] =
                                  Append(@, [node |-> toString(id_input), output |-> input_class, points |-> <<>>])]
                    IN IF exist THEN Return(s, False)
                       ELSE IF \/ ~HasNode(s.nf, nodeOneModule, id_input.v)
                               \/ input_class \notin DOMAIN s.nf[nodeOneModule][id_input.v].inputs
                            THEN Throw(s1)
                       ELSE LET s2 == [s1 EXCEPT !.nf[nodeOneModule][id_input.v].inputs[input_class] =
                                         Append(@, [node |-> toString(id_output), input |-> output_class])]
                                s3 == IF s.mod = nodeOneModule
                                      THEN [s2 EXCEPT !.dom.connections =
                                              Append(@, Visual(id_input.v, id_output.v, output_class, input_class))]
                                      ELSE s2
                            IN IF /\ s.mod = nodeOneModule
                                  /\ \/ updateConnectionNodesThrows(s3.dom, id_output.v)
                                     \/ updateConnectionNodesThrows(s3.dom, id_input.v)
                               THEN Throw(s3)
                               ELSE Return(dispatch(s3, "connectionCreated"), True)

\* positions of the visuals matching
\* .connection.node_in_node-<in>.node_out_node-<out>.<oc>.<ic>
MatchVisual(dom, in, out, oc, ic) ==
    {i \in DOMAIN dom.connections :
        [dom.connections[i] EXCEPT !.pts = 0] = Visual(in, out, oc, ic)}

\* container.querySelector(selector) then ele.remove(): the first match goes
RemoveFirstVisual(dom, in, out, oc, ic) ==
    [dom EXCEPT !.connections = splice1(@, findIndex(MatchVisual(dom, in, out, oc, ic)))]

(***************************************************************************)
(* ConnectionManager.removeSingleConnection                                *)
(***************************************************************************)
removeSingleConnection(s, id_output, id_input, output_class, input_class) ==
    LET nodeOneModule == getModuleFromNodeId(s.nf, id_output)
        nodeTwoModule == getModuleFromNodeId(s.nf, id_input)
        m == nodeOneModule
    IN IF ~sameModule(nodeOneModule, nodeTwoModule) THEN s
       ELSE IF \/ ~HasNode(s.nf, m, id_output.v)
               \/ ~HasNode(s.nf, m, id_input.v)
               \/ output_class \notin DOMAIN s.nf[m][id_output.v].outputs
               \/ input_class \notin DOMAIN s.nf[m][id_input.v].inputs
            THEN Throw(s)
       ELSE LET outputConnections == s.nf[m][id_output.v].outputs[output_class]
                index_out == findIndex({i \in DOMAIN outputConnections :
                                 /\ StrictEq(outputConnections[i].node, id_input)
                                 /\ outputConnections[i].output = input_class})
                s1 == IF index_out > -1
                      THEN [s EXCEPT !.nf[m][id_output.v].outputs[output_class] = splice1(@, index_out)]
                      ELSE s
                inputConnections == s1.nf[m][id_input.v].inputs[input_class]
                index_in == findIndex({i \in DOMAIN inputConnections :
                                /\ StrictEq(inputConnections[i].node, id_output)
                                /\ inputConnections[i].input = output_class})
                s2 == IF index_in > -1
                      THEN [s1 EXCEPT !.nf[m][id_input.v].inputs[input_class] = splice1(@, index_in)]
                      ELSE s1
                s3 == IF MatchVisual(s2.dom, id_input.v, id_output.v, output_class, input_class) # {}
                      THEN [s2 EXCEPT !.dom = RemoveFirstVisual(@, id_input.v, id_output.v, output_class, input_class)]
                      ELSE s2
            IN dispatch(s3, "connectionRemoved")

(***************************************************************************)
(* ConnectionManager.removeConnectionNodeId: driven by the visuals in the  *)
(* DOM, against the store of the ACTIVE module.                            *)
(***************************************************************************)
\* inputConnections.splice(findIndex(...), 1) on the input side of visual v;
\* the splice is not guarded, so an index of -1 removes the last record
spliceInputSide(s, v) ==
    [s EXCEPT !.nf[s.mod][v.in].inputs[v.ic] =
        splice1(@, findIndex({j \in DOMAIN @ : @[j].node = extractNodeId(v.out) /\ @[j].input = v.oc}))]

spliceOutputSide(s, v) ==
    [s EXCEPT !.nf[s.mod][v.out].outputs[v.oc] =
        splice1(@, findIndex({j \in DOMAIN @ : @[j].node = extractNodeId(v.in) /\ @[j].output = v.ic}))]

\* nodeforgeData[module].data[id].inputs[cls].connections resolves
InputSideResolves(s, v) == HasNode(s.nf, s.mod, v.in) /\ v.ic \in DOMAIN s.nf[s.mod][v.in].inputs

OutputSideResolves(s, v) == HasNode(s.nf, s.mod, v.out) /\ v.oc \in DOMAIN s.nf[s.mod][v.out].outputs

\* one pass of a loop body; first names the side the loop treats first
removeVisualRecords(s, v, first) ==
    IF first = "inputs"
    THEN IF ~InputSideResolves(s, v) THEN Throw(s)
         ELSE LET s1 == spliceInputSide(s, v)
              IN IF ~OutputSideResolves(s1, v) THEN Throw(s1) ELSE spliceOutputSide(s1, v)
    ELSE IF ~OutputSideResolves(s, v) THEN Throw(s)
         ELSE LET s1 == spliceOutputSide(s, v)
              IN IF ~InputSideResolves(s1, v) THEN Throw(s1) ELSE spliceInputSide(s1, v)

\* the visuals of els that no ele.remove() has taken out, in document order
KeepVisuals(els, gone) ==
    [j \in 1..Cardinality(DOMAIN els \ gone) |-> els[Ascending(DOMAIN els \ gone)[j]]]

\* els: the visuals as they stood when the NodeLists were taken; todo: the
\* positions still to treat, in loop order; gone: the positions removed.
\* A loop body that throws leaves the visual in place and dispatches nothing.
RECURSIVE removeLoop(_, _, _, _, _)
removeLoop(s, els, todo, gone, first) ==
    IF todo = <<>>
    THEN [st |-> [s EXCEPT !.dom.connections = KeepVisuals(els, gone)], gone |-> gone]
    ELSE LET i == Head(todo)
             s1 == removeVisualRecords(s, els[i], first)
         IN IF s1.threw
            THEN [st |-> [s1 EXCEPT !.dom.connections = KeepVisuals(els, gone)], gone |-> gone]
            ELSE removeLoop(dispatch(s1, "connectionRemoved"), els, Tail(todo), gone \cup {i}, first)

Reverse(q) == [j \in 1..Len(q) |-> q[Len(q) + 1 - j]]

removeConnectionNodeId(s, id) ==
    LET els == s.dom.connections
        elemsOut == Ascending({i \in DOMAIN els : els[i].out = id.v})
        elemsIn == Ascending({i \in DOMAIN els : els[i].in = id.v})
        a == removeLoop(s, els, Reverse(elemsOut), {}, "inputs")
        b == removeLoop(a.st, els, Reverse(elemsIn), a.gone, "outputs")
    IN IF a.st.threw THEN a.st ELSE b.st

(***************************************************************************)
(* NodeManager.removeNodeId('node-<k>')                                    *)
(***************************************************************************)
\* variant: deleting a node hands its id back to the counter
deleteNodeData_recycle(s, moduleName, k) == [s EXCEPT !.nf[moduleName] = DelKey(@, k), !.nid = k]

\* line 519: delete nodeforgeData[moduleName].data[nodeId]
deleteNodeData(s, moduleName, k) == [s EXCEPT !.nf[moduleName] = DelKey(@, k)]

removeNodeId(s, k) ==
    LET nodeId_ == extractNodeId(k)
        moduleName == getModuleFromNodeId(s.nf, nodeId_)
        s1 == removeConnectionNodeId(s, nodeId_)
        s2 == [s1 EXCEPT !.dom.nodes = DelKey(@, k)]
    IN IF s1.threw THEN s1
       ELSE IF moduleName \notin DOMAIN s2.nf THEN Throw(s2)
       ELSE dispatch(deleteNodeData(s2, moduleName, k), "nodeRemoved")

(***************************************************************************)
(* NodeManager.addNodeInput / addNodeOutput.  The new port is named by the *)
(* COUNT of the node's ports plus one; the DOM is touched before the store.*)
(***************************************************************************)
Ports(node, side) == IF side = "inputs" THEN node.inputs ELSE node.outputs

SetPorts(node, side, pm) ==
    IF side = "inputs" THEN [node EXCEPT !.inputs = pm] ELSE [node EXCEPT !.outputs = pm]

addNodePort(s, id, side) ==
    LET moduleName == getModuleFromNodeId(s.nf, id)
    IN IF ~HasNode(s.nf, moduleName, id.v) THEN Throw(s)
       ELSE LET infoNode == s.nf[moduleName][id.v]
                numPorts == Cardinality(DOMAIN Ports(infoNode, side))
                port_class == numPorts + 1
            IN IF id.v \notin DOMAIN s.dom.nodes THEN Throw(s)
               ELSE [s EXCEPT
                       !.dom.nodes[id.v] =
                           IF side = "inputs" THEN [@ EXCEPT !.inputs = Append(@, port_class)]
                           ELSE [@ EXCEPT !.outputs = Append(@, port_class)],
                       !.nf[moduleName][id.v] =
                           SetPorts(@, side, SetKey(Ports(@, side), port_class, <<>>))]

addNodeInput(s, id) == addNodePort(s, id, "inputs")

addNodeOutput(s, id) == addNodePort(s, id, "outputs")

(***************************************************************************)
(* NodeManager.removeNodeInput / removeNodeOutput.  side is the side of    *)
(* the port being removed; the peer records live on the other side.        *)
(***************************************************************************)
Other(side) == IF side = "inputs" THEN "outputs" ELSE "inputs"

\* item.input on an input-side record, item.output on an output-side one
PeerPort(item, side) == IF side = "inputs" THEN item.input ELSE item.output

\* the visual between port (id, port_class) on side and (peer, peer_class)
VisualOf(side, id, port_class, peer, peer_class) ==
    IF side = "inputs" THEN Visual(id, peer, peer_class, port_class)
    ELSE Visual(peer, id, port_class, peer_class)

\* the inner forEach over the peer's list, from position j (1-based) up to
\* the length n the list had when the loop began; a splice shifts the rest
\* down under the running index
RECURSIVE innerForEach(_, _, _, _, _, _, _, _, _)
innerForEach(s, m, side, id, port_class, peer, peer_class, j, n) ==
    LET list == Ports(s.nf[m][peer], Other(side))[peer_class]
    IN IF j > n \/ j > Len(list) THEN s
       ELSE IF /\ StrictEq(list[j].node, id)
               /\ PeerPort(list[j], Other(side)) = port_class
            THEN LET s1 == [s EXCEPT !.nf[m][peer] =
                              SetPorts(@, Other(side),
                                  [Ports(@, Other(side)) EXCEPT ![peer_class] = splice1(@, j - 1)])]
                     v == VisualOf(side, id.v, port_class, peer, peer_class)
                 IN IF MatchVisual(s1.dom, v.in, v.out, v.oc, v.ic) = {} THEN Throw(s1)
                    ELSE innerForEach(
                            dispatch([s1 EXCEPT !.dom = RemoveFirstVisual(@, v.in, v.out, v.oc, v.ic)],
                                     "connectionRemoved"),
                            m, side, id, port_class, peer, peer_class, j + 1, n)
            ELSE innerForEach(s, m, side, id, port_class, peer, peer_class, j + 1, n)

\* the outer forEach over the port's own records
RECURSIVE outerForEach(_, _, _, _, _, _)
outerForEach(s, m, side, id, port_class, i) ==
    IF s.threw THEN s
    ELSE LET own == Ports(s.nf[m][id.v], side)[port_class]
         IN IF i > Len(own) THEN s
            ELSE LET peer == own[i].node.v
                     peer_class == PeerPort(own[i], side)
                 IN IF \/ ~HasNode(s.nf, m, peer)
                       \/ peer_class \notin DOMAIN Ports(s.nf[m][peer], Other(side))
                    THEN Throw(s)
                    ELSE outerForEach(
                            innerForEach(s, m, side, id, port_class, peer, peer_class, 1,
                                         Len(Ports(s.nf[m][peer], Other(side))[peer_class])),
                            m, side, id, port_class, i + 1)

RemoveFirst(q, x) == splice1(q, findIndex({i \in DOMAIN q : q[i] = x}))

removeNodePort(s, id, port_class, side) ==
    LET moduleName == getModuleFromNodeId(s.nf, id)
    IN IF ~HasNode(s.nf, moduleName, id.v) THEN Throw(s)
       ELSE IF port_class \notin DOMAIN Ports(s.nf[moduleName][id.v], side) THEN Throw(s)
       ELSE LET s1 == outerForEach(s, moduleName, side, id, port_class, 1)
                s2 == [s1 EXCEPT !.nf[moduleName][id.v] =
                          SetPorts(@, side, DelKey(Ports(@, side), port_class))]
                el == IF id.v \in DOMAIN s2.dom.nodes
                      THEN Ports(s2.dom.nodes[id.v], side) ELSE <<>>
            IN IF s1.threw THEN s1
               ELSE IF port_class \notin Range(el) THEN Throw(s2)
               ELSE [s2 EXCEPT !.dom.nodes[id.v] =
                        IF side = "inputs" THEN [@ EXCEPT !.inputs = RemoveFirst(@, port_class)]
                        ELSE [@ EXCEPT !.outputs = RemoveFirst(@, port_class)]]

removeNodeInput(s, id, input_class) == removeNodePort(s, id, input_class, "inputs")

removeNodeOutput(s, id, output_class) == removeNodePort(s, id, output_class, "outputs")

(***************************************************************************)
(* JSON.parse(JSON.stringify(x)): every object of the copy is a new one.   *)
(***************************************************************************)
\* variant: the copy shares the objects of the original
JsonRef_shared(old, fresh) == old

\* the reference the copy holds for an object: the new cell, never the old
JsonRef(old, fresh) == fresh

PairKey(p) == (IF p[1] = DEFAULT_MODULE THEN 0 ELSE 1) * (2 * MaxId + 1) + p[2]

Rank(nf, p) == Cardinality({q \in NodePairs(nf) : PairKey(q) <= PairKey(p)})

\* for each node of nf, the reference its copy holds; avoid: cells in use
CopyPlan(nf, avoid) ==
    [p \in NodePairs(nf) |->
        JsonRef(nf[p[1]][p[2]].data, Ascending(Refs \ avoid)[Rank(nf, p)])]

CopyStore(nf, plan) ==
    [m \in DOMAIN nf |-> [k \in DOMAIN nf[m] |-> [nf[m][k] EXCEPT !.data = plan[<<m, k>>]]]]

CopyHeap(nf, hp, plan) ==
    [r \in Refs |->
        IF \E p \in NodePairs(nf) : plan[p] = r
        THEN hp[nf[(CHOOSE p \in NodePairs(nf) : plan[p] = r)[1]]
                  [(CHOOSE p \in NodePairs(nf) : plan[p] = r)[2]].data]
        ELSE hp[r]]

(***************************************************************************)
(* nodeforge.js: clear, load, import, export; StateManager.getNodeFromId   *)
(***************************************************************************)
\* ModuleManager.clear
\* variant: the reset empties every module and keeps them all
clear_keep(s) == [s EXCEPT !.dom = EmptyDom, !.nf = [m \in DOMAIN s.nf |-> EmptyModule]]

clear(s) == [s EXCEPT !.dom = EmptyDom, !.nf = [m \in {DEFAULT_MODULE} |-> EmptyModule]]

RECURSIVE Flatten(_)
Flatten(qs) == IF qs = <<>> THEN <<>> ELSE Head(qs) \o Flatten(Tail(qs))

\* NodeManager.addNodeImport: the node element.  Inputs are rendered by
\* their key names; outputs are rendered as output_1 .. output_<count>.
ImportedElement(dataNode) ==
    [inputs |-> Ascending(DOMAIN dataNode.inputs),
     outputs |-> Ascending(1..Cardinality(DOMAIN dataNode.outputs))]

\* NodeManager.addNodeImport: one visual per input-side record
ImportedVisuals(dataNode) ==
    Flatten([x \in 1..Cardinality(DOMAIN dataNode.inputs) |->
        LET input_item == Ascending(DOMAIN dataNode.inputs)[x]
            recs == dataNode.inputs[input_item]
        IN [y \in 1..Len(recs) |-> Visual(dataNode.id, recs[y].node.v, recs[y].input, input_item)]])

\* the output-side records of a module that carry points: <<node, port, index>>
Rerouted(data) ==
    {r \in (DOMAIN data) \X (1..MaxPort) \X (1..MaxConns) :
        /\ r[2] \in DOMAIN data[r[1]].outputs
        /\ r[3] \in DOMAIN data[r[1]].outputs[r[2]]
        /\ data[r[1]].outputs[r[2]][r[3]].points # <<>>}

\* RerouteManager.addRerouteImport's lookup of the connection element of a
\* record: its 0-based position among the visuals, -1 when there is none
RerouteElement(dom, data, r) ==
    LET rec == data[r[1]].outputs[r[2]][r[3]]
    IN findIndex(MatchVisual(dom, rec.node.v, r[1], r[2], rec.output))

\* RerouteManager.addRerouteImport over every node: one point element per
\* stored point, appended to the record's connection element
addRerouteImport(dom, data) ==
    [dom EXCEPT !.connections =
        [i \in DOMAIN @ |->
            LET R == {r \in Rerouted(data) : RerouteElement(dom, data, r) = i - 1}
            IN [@[i] EXCEPT !.pts = @ + SumLens([r \in R |-> data[r[1]].outputs[r[2]][r[3]].points], R)]]]

load(s) ==
    IF s.mod \notin DOMAIN s.nf THEN Throw(s)
    ELSE LET data == s.nf[s.mod]
             keys == Ascending(DOMAIN data)
             dom == [nodes |-> [k \in DOMAIN s.dom.nodes \cup DOMAIN data |->
                                  IF k \in DOMAIN data THEN ImportedElement(data[k])
                                  ELSE s.dom.nodes[k]],
                     connections |-> s.dom.connections \o
                                  Flatten([x \in 1..Len(keys) |-> ImportedVisuals(data[keys[x]])])]
             s1 == [s EXCEPT !.dom = dom]
             s2 == IF s.rr THEN [s1 EXCEPT !.dom = addRerouteImport(dom, data)] ELSE s1
             number == IF AllNodeIds(s.nf) = {} THEN 1 ELSE Max(AllNodeIds(s.nf)) + 1
         IN IF s.rr /\ \E r \in Rerouted(data) : RerouteElement(dom, data, r) = -1 THEN Throw(s1)
            ELSE IF \E k \in DOMAIN data : updateConnectionNodesThrows(dom, k) THEN Throw(s2)
            ELSE [s2 EXCEPT !.nid = number]

\* variant: the import event is dispatched whatever notifi says
import_notify(s, data, notifi) ==
    LET plan == CopyPlan(data, ClientRefs(s.cl))
        s1 == clear(s)
        s2 == [s1 EXCEPT !.nf = CopyStore(data, plan), !.hp = CopyHeap(data, s.hp, plan)]
        s3 == load(s2)
    IN IF s3.threw THEN s3 ELSE dispatch(s3, "import")

\* import(data, notifi); data's references point into s.hp
import(s, data, notifi) ==
    LET plan == CopyPlan(data, ClientRefs(s.cl))
        s1 == clear(s)
        s2 == [s1 EXCEPT !.nf = CopyStore(data, plan), !.hp = CopyHeap(data, s.hp, plan)]
        s3 == load(s2)
    IN IF s3.threw \/ ~notifi THEN s3 ELSE dispatch(s3, "import")

\* export(): the copy goes to the caller
export(s) ==
    LET plan == CopyPlan(s.nf, StoreRefs(s.nf) \cup ClientRefs(s.cl))
        dataExport == CopyStore(s.nf, plan)
    IN Return(dispatch([s EXCEPT !.hp = CopyHeap(s.nf, s.hp, plan),
                                 !.cl = [kind |-> "data", node |-> EmptyMap, data |-> dataExport]],
                       "export"), Object)

\* StateManager.getNodeFromId
getNodeFromId(s, id) ==
    LET moduleName == getModuleFromNodeId(s.nf, id)
    IN IF ~HasNode(s.nf, moduleName, id.v) THEN Throw(s)
       ELSE LET node == s.nf[moduleName][id.v]
                r == JsonRef(node.data, Min(Refs \ StoreRefs(s.nf)))
            IN Return([s EXCEPT !.hp[r] = s.hp[node.data],
                                !.cl = [kind |-> "node", node |-> [node EXCEPT !.data = r],
                                        data |-> EmptyMap]], Object)

(***************************************************************************)
(* NodeManager.updateNodeDataFromId(id, data); r is the cell of data       *)
(***************************************************************************)
updateNodeDataFromId(s, id, r) ==
    LET moduleName == getModuleFromNodeId(s.nf, id)
    IN IF ~HasNode(s.nf, moduleName, id.v) THEN Throw(s)
       ELSE LET nodeInfo == s.nf[moduleName][id.v]
                s1 == [s EXCEPT !.nf[moduleName][id.v].data = r]
            IN IF nodeInfo.html # "" THEN import(s1, s1.nf, FALSE) ELSE s1

(***************************************************************************)
(* ModuleManager                                                           *)
(***************************************************************************)
addModule(s, name) == dispatch([s EXCEPT !.nf = SetKey(@, name, EmptyModule)], "moduleCreated")

\* variant: the view is left where it was
changeModule_keepView(s, name) ==
    LET s1 == [dispatch(s, "moduleChanged") EXCEPT !.mod = name, !.dom = EmptyDom]
    IN import(s1, s1.nf, FALSE)

changeModule(s, name) ==
    LET s1 == [dispatch(s, "moduleChanged") EXCEPT !.mod = name, !.dom = EmptyDom,
                                                    !.ui.canvas_x = 0, !.ui.pos_x = 0,
                                                    !.ui.zoom = ZOOM_DEFAULT,
                                                    !.ui.zoom_last_value = ZOOM_LAST_VALUE]
    IN import(s1, s1.nf, FALSE)

(***************************************************************************)
(* ZoomManager.  Zoom values are counted in tenths.                        *)
(***************************************************************************)
\* ZoomManager.zoom_refresh: the canvas offset is scaled by zoom /
\* zoom_last_value
zoom_refresh(s) ==
    LET s1 == dispatch(s, "zoom")
    IN [s1 EXCEPT !.ui.canvas_x = (@ * s.ui.zoom) \div s.ui.zoom_last_value,
                  !.ui.zoom_last_value = s.ui.zoom]

zoom_in(s) ==
    IF s.ui.zoom < ZOOM_MAX THEN zoom_refresh([s EXCEPT !.ui.zoom = @ + ZOOM_STEP]) ELSE s

zoom_out(s) ==
    IF s.ui.zoom > ZOOM_MIN THEN zoom_refresh([s EXCEPT !.ui.zoom = @ - ZOOM_STEP]) ELSE s

clearModuleSelected(s) == [s EXCEPT !.dom = EmptyDom, !.nf = SetKey(@, s.mod, EmptyModule)]

\* ModuleManager.removeModule.  nodeforgeData is read before the switch to
\* 'Home'; the switch re-imports, and import puts a new object in
\* this.nodeforge, so the delete that follows the switch acts on the object
\* the store no longer is.
removeModule(s, name) ==
    IF s.mod = name
    THEN LET s1 == changeModule(s, DEFAULT_MODULE)
         IN IF s1.threw THEN s1 ELSE dispatch(s1, "moduleRemoved")
    ELSE dispatch([s EXCEPT !.nf = DelKey(@, name)], "moduleRemoved")

(***************************************************************************)
(* Actions: one public call each.  Commit installs what the call reached.  *)
(***************************************************************************)
Commit(s, op, args) ==
    /\ nodeforge' = s.nf
    /\ module' = s.mod
    /\ nodeId' = s.nid
    /\ precanvas' = s.dom
    /\ client' = s.cl
    /\ heap' = Collect(s.hp, s.nf, s.cl)
    /\ events' = s.ev
    /\ last' = [op |-> op, args |-> args, ret |-> s.ret, threw |-> s.threw]
    /\ removed' = IF op = "removeNodeId" /\ ~s.threw THEN removed \cup {args[1]} ELSE removed
    /\ ui' = s.ui
    /\ UNCHANGED <<editor_mode, reroute, listeners>>

(***************************************************************************)
(* nodeforge.js: the pointer and keyboard handlers.  One pointer: a press  *)
(* is followed by its release before the next press.  Left button only.    *)
(* The layout decides what lies under the pointer, so the target of an     *)
(* event and the input the draft snaps to are inputs of the handlers.      *)
(***************************************************************************)
\* the connection element drawConnection appends: it has the class
\* "connection" and no other
Draft == Visual(0, 0, 0, 0)

\* the connection element a path or a point element sits in
ParentVisual(e) == Visual(e.a, e.b, e.c, e.d)

\* 1-based position of that connection element in the canvas, 0 when detached
ParentIndex(dom, e) == findIndex(MatchVisual(dom, e.a, e.b, e.c, e.d)) + 1

\* ele.remove() on a connection element
RemoveElement(dom, v) ==
    IF MatchVisual(dom, v.in, v.out, v.oc, v.ic) = {} THEN dom
    ELSE RemoveFirstVisual(dom, v.in, v.out, v.oc, v.ic)

\* variant: the node stays selected
unselectNode_keep(s) == s

\* click 354-358: the selected node is unselected
unselectNode(s) ==
    IF s.ui.node_selected = Null THEN s
    ELSE dispatch([s EXCEPT !.ui.node_selected = Null], "nodeUnselected")

\* click 359-363 with removeReouteConnectionSelected
unselectConnection(s) ==
    IF s.ui.connection_selected = Null THEN s
    ELSE [dispatch(s, "connectionUnselected") EXCEPT !.ui.connection_selected = Null]

\* ConnectionManager.drawConnection
drawConnection(s, ele) ==
    dispatch([s EXCEPT !.ui.lastSnapTarget = Null,
                       !.ui.snap_hover = @ \ {s.ui.lastSnapTarget},
                       !.ui.connection_ele = TRUE,
                       !.dom.connections = Append(@, Draft)],
             "connectionStart")

\* ConnectionManager.removeConnection: both lists are resolved before
\* either is spliced; the splices are not guarded
removeConnection(s) ==
    IF s.ui.connection_selected = Null THEN s
    ELSE LET v == ParentVisual(s.ui.connection_selected)
             s1 == [s EXCEPT !.ui.connection_selected = Null]
         IN IF v = Draft THEN Throw(s1)
            ELSE IF ~(OutputSideResolves(s1, v) /\ InputSideResolves(s1, v)) THEN Throw(s1)
            ELSE dispatch([spliceInputSide(spliceOutputSide(s1, v), v)
                              EXCEPT !.dom = RemoveElement(@, v)],
                          "connectionRemoved")

\* what the content of a node is made of: a plain block, or an editable
ContentTags == {"DIV", "INPUT", "TEXTAREA", "contenteditable"}

\* click 412-414: the delete box removes the selected node
removeSelectedNode(s) ==
    IF s.ui.node_selected # Null THEN removeNodeId(s, s.ui.node_selected.a) ELSE s

\* click 416-418: and the selected connection
removeSelectedConnection(s) == IF s.threw THEN s ELSE removeConnection(s)

\* click 420-429
unselectAll(s) == IF s.threw THEN s ELSE unselectConnection(unselectNode(s))

\* click 284-307: the element the press selects; in fixed mode a press off
\* the canvas background returns before this
selectTarget(s, target) ==
    IF s.mode \in {"fixed", "view"} THEN [s EXCEPT !.ui.ele_selected = Container]
    ELSE [s EXCEPT !.ui.first_click = target,
                   !.ui.deletebox = Null,
                   !.ui.ele_selected = IF target.tag \in ContentTags THEN NodeEl(target.a) ELSE target]

\* click 308-433: the switch on the first class of ele_selected
clickSwitch(s, target) ==
    LET e == s.ui.ele_selected
    IN CASE e.tag = "nodeforge-node" ->
               LET s1 == IF s.ui.node_selected # Null /\ s.ui.node_selected # e
                         THEN dispatch(s, "nodeUnselected") ELSE s
                   s2 == unselectConnection(s1)
                   s3 == IF s.ui.node_selected # e THEN dispatch(s2, "nodeSelected") ELSE s2
               IN [s3 EXCEPT !.ui.node_selected = e, !.ui.drag = TRUE]
         [] e.tag = "output" ->
               drawConnection(unselectConnection(unselectNode([s EXCEPT !.ui.connection = TRUE])),
                              target)
         [] e.tag \in {"parent-nodeforge", "nodeforge"} ->
               [unselectConnection(unselectNode(s)) EXCEPT !.ui.editor_selected = TRUE]
         [] e.tag = "main-path" ->
               LET s1 == [unselectConnection(unselectNode(s)) EXCEPT !.ui.connection_selected = e]
               IN IF ParentVisual(e) # Draft THEN dispatch(s1, "connectionSelected") ELSE s1
         [] e.tag = "point" ->
               [unselectConnection(s) EXCEPT !.ui.drag_point = TRUE]
         [] e.tag = "nodeforge-delete" ->
               unselectAll(removeSelectedConnection(removeSelectedNode(s)))
         [] OTHER -> s

\* click 434-450: the press is remembered
clickEnd(s, x) ==
    IF s.threw THEN s
    ELSE dispatch([s EXCEPT !.ui.pos_x = x, !.ui.pos_x_start = x], "clickEnd")

\* NodeForge.click(e): e.target = target, e.clientX = x
click(s0, target, x) ==
    LET s == dispatch(s0, "click")
    IN IF s.mode = "fixed" /\ target.tag \notin {"parent-nodeforge", "nodeforge"} THEN Return(s, False)
       ELSE clickEnd(clickSwitch(selectTarget(s, target), target), x)

\* 0-based position, in the source node's list for output_class, of the
\* record of the connection element a path or point sits in; -1 when absent
searchConnection(s, e) ==
    findIndex({j \in DOMAIN s.nf[s.mod][e.b].outputs[e.c] :
                  /\ s.nf[s.mod][e.b].outputs[e.c][j].node = extractNodeId(e.a)
                  /\ s.nf[s.mod][e.b].outputs[e.c][j].output = e.d})

\* ...data[nodeId].outputs[output_class].connections[searchConnection] is
\* an object
RecordResolves(s, e) ==
    /\ HasNode(s.nf, s.mod, e.b)
    /\ e.c \in DOMAIN s.nf[s.mod][e.b].outputs
    /\ searchConnection(s, e) >= 0

\* arr[index] = val, index 0-based; a write past the end lengthens the array
SetAt(arr, index, val) ==
    [j \in 1..Max({Len(arr), index + 1}) |->
        IF j = index + 1 THEN val ELSE IF j <= Len(arr) THEN arr[j] ELSE 0]

\* position 474-491: the selected node follows the pointer
dragNode(s, e_pos_x) ==
    LET k == s.ui.ele_selected.a
        s1 == [s EXCEPT !.ui.pos_x = e_pos_x]
    IN IF ~HasNode(s.nf, s.mod, k) THEN Throw(s1)
       ELSE LET newLeft == s.nf[s.mod][k].pos_x - (s.ui.pos_x - e_pos_x)
                s2 == [s1 EXCEPT !.nf[s.mod][k].pos_x = newLeft]
            IN IF updateConnectionNodesThrows(s2.dom, k) THEN Throw(s2) ELSE s2

\* position 493-531: the selected point follows the pointer
dragPoint(s, e_pos_x) ==
    LET e == s.ui.ele_selected
        numberPointPosition == e.n - 1
        s1 == [s EXCEPT !.ui.pos_x = e_pos_x]
    IN IF ~RecordResolves(s1, e) THEN Throw(s1)
       ELSE LET s2 == [s1 EXCEPT !.nf[s.mod][e.b].outputs[e.c][searchConnection(s, e) + 1].points =
                                    SetAt(@, numberPointPosition, e_pos_x - s.ui.canvas_x)]
            IN IF updateConnectionNodesThrows(s2.dom, e.b) THEN Throw(s2) ELSE s2

\* updateConnection 82
SNAP_RADIUS == 30

\* container.querySelectorAll('.input'): the input elements in document
\* order; ks: the node elements in the order they were added
RECURSIVE querySelectorAllInputs(_, _)
querySelectorAllInputs(dom, ks) ==
    IF ks = <<>> THEN <<>>
    ELSE [i \in DOMAIN dom.nodes[Head(ks)].inputs |->
             InputEl(Head(ks), dom.nodes[Head(ks)].inputs[i])]
         \o querySelectorAllInputs(dom, Tail(ks))

\* updateConnection 96-98: Math.pow(eX - inputCenterX, 2) + Math.pow(eY -
\* inputCenterY, 2), the square of dist; centre: <<inputCenterX, inputCenterY>>
distSquared(eX, eY, centre) ==
    (eX - centre[1]) * (eX - centre[1]) + (eY - centre[2]) * (eY - centre[2])

\* variant: an input as near as the nearest so far replaces it
nearer_orEqual(dist2, closest2) == dist2 <= closest2

\* updateConnection 99: dist < closestDist.  Both are square roots of
\* integers here, and are compared by their squares
nearer(dist2, closest2) == dist2 < closest2

\* updateConnection 91-103: the loop over the inputs from the i-th on;
\* closest: the square of closestDist and closestInput so far
RECURSIVE snapLoop(_, _, _, _, _, _, _)
snapLoop(inputs, i, outputNodeId, eX, eY, rect, closest) ==
    IF i > Len(inputs) THEN closest.input
    ELSE LET input == inputs[i]
             dist2 == distSquared(eX, eY, rect[input])
         IN IF input.a = outputNodeId
            THEN snapLoop(inputs, i + 1, outputNodeId, eX, eY, rect, closest)
            ELSE IF nearer(dist2, closest.dist2)
            THEN snapLoop(inputs, i + 1, outputNodeId, eX, eY, rect, [dist2 |-> dist2, input |-> input])
            ELSE snapLoop(inputs, i + 1, outputNodeId, eX, eY, rect, closest)

\* updateConnection 82-103: closestInput for a pointer at (eX, eY); rect:
\* the centre of each input element's bounding rectangle
closestInput(s, eX, eY, rect) ==
    snapLoop(querySelectorAllInputs(s.dom, Ascending(DOMAIN s.dom.nodes)), 1, s.ui.ele_selected.a,
             eX, eY, rect, [dist2 |-> SNAP_RADIUS * SNAP_RADIUS, input |-> Null])

\* ConnectionManager.updateConnection(eX, eY); snap: closestInput
updateConnection(s, snap) ==
    IF ~s.ui.connection_ele \/ s.ui.ele_selected = Null THEN s
    ELSE [s EXCEPT !.ui.lastSnapTarget = snap,
                   !.ui.snap_hover = (@ \ {s.ui.lastSnapTarget}) \cup (IF snap = Null THEN {} ELSE {snap})]

\* NodeForge.position(e): e.clientX = e_pos_x; snap: the input within the
\* snap radius that ConnectionManager.updateConnection finds, Null if none
position(s, e_pos_x, snap) ==
    LET s1 == IF s.ui.connection THEN updateConnection(s, snap) ELSE s
        s2 == IF s1.ui.editor_selected THEN dispatch(s1, "translate") ELSE s1
        s3 == IF s2.ui.drag THEN dragNode(s2, e_pos_x) ELSE s2
        s4 == IF s3.threw \/ ~s3.ui.drag_point THEN s3 ELSE dragPoint(s3, e_pos_x)
    IN IF s4.threw THEN s4 ELSE dispatch(s4, "mouseMove")

\* dragEnd 625-627: the draft is given up
cancelDraft(s) ==
    [dispatch(s, "connectionCancel") EXCEPT !.dom = RemoveElement(@, Draft),
                                            !.ui.connection_ele = FALSE]

\* dragEnd 611-622: the draft gets the classes of the connection, the two
\* records are pushed
saveConnection(s, input_id, output_id, output_class, input_class) ==
    LET v == Visual(input_id, output_id, output_class, input_class)
        at == findIndex(MatchVisual(s.dom, 0, 0, 0, 0)) + 1
        s1 == IF at = 0 THEN s ELSE [s EXCEPT !.dom.connections[at] = v]
    IN IF ~OutputSideResolves(s1, v) THEN Throw(s1)
       ELSE LET s2 == [s1 EXCEPT !.nf[s.mod][output_id].outputs[output_class] =
                         Append(@, [node |-> extractNodeId(input_id), output |-> input_class,
                                    points |-> <<>>])]
            IN IF ~InputSideResolves(s2, v) THEN Throw(s2)
               ELSE LET s3 == [s2 EXCEPT !.nf[s.mod][input_id].inputs[input_class] =
                                 Append(@, [node |-> extractNodeId(output_id), input |-> output_class])]
                    IN IF \/ updateConnectionNodesThrows(s3.dom, output_id)
                          \/ updateConnectionNodesThrows(s3.dom, input_id)
                       THEN Throw(s3)
                       ELSE [dispatch(s3, "connectionCreated") EXCEPT !.ui.connection_ele = FALSE]

\* dragEnd 580, 585: force_first_input is on and the release is on a node
\* element or inside the content of one
forced(s, ele_last) ==
    s.ui.force_first_input /\ (ele_last.tag = "nodeforge-node" \/ ele_last.tag \in ContentTags)

\* dragEnd 591-595: false (0) when the node has no input, else input_1
firstInput(s, input_id) ==
    IF DOMAIN s.nf[getModuleFromNodeId(s.nf, Str(input_id))][input_id].inputs = {} THEN 0 ELSE 1

\* dragEnd 573-643: the end of a connection draft
endConnection(s, target) ==
    LET ele_last == IF s.ui.lastSnapTarget # Null THEN s.ui.lastSnapTarget ELSE target
        s1 == [s EXCEPT !.ui.lastSnapTarget = Null, !.ui.snap_hover = @ \ {s.ui.lastSnapTarget}]
        input_id == ele_last.a
        input_class == IF forced(s, ele_last) THEN firstInput(s, input_id) ELSE ele_last.b
        output_id == s.ui.ele_selected.a
        output_class == s.ui.ele_selected.b
    IN IF ele_last = Null THEN Throw(s)
       ELSE IF ele_last.tag # "input" /\ ~forced(s, ele_last) THEN cancelDraft(s1)
       ELSE IF /\ forced(s, ele_last)
               /\ ~HasNode(s.nf, getModuleFromNodeId(s.nf, Str(input_id)), input_id)
            THEN Throw(s1)
       ELSE IF output_id = input_id \/ input_class = 0 THEN cancelDraft(s1)
       ELSE IF MatchVisual(s1.dom, input_id, output_id, output_class, input_class) # {}
            THEN cancelDraft(s1)
       ELSE saveConnection(s1, input_id, output_id, output_class, input_class)

\* NodeForge.dragEnd(e): e.clientX = e_pos_x (for a touch, where it last
\* moved); target is e.target, for a touch what document.elementFromPoint
\* finds there: Null when the point is outside the viewport
dragEnd(s, target, e_pos_x) ==
    LET moved == s.ui.pos_x_start # e_pos_x
        s1 == IF s.ui.drag /\ moved THEN dispatch(s, "nodeMoved") ELSE s
        s2 == IF s.ui.drag_point /\ moved THEN dispatch(s1, "rerouteMoved") ELSE s1
        s3 == IF s.ui.editor_selected
              THEN [s2 EXCEPT !.ui.canvas_x = @ - (s.ui.pos_x - e_pos_x),
                              !.ui.editor_selected = FALSE]
              ELSE s2
        s4 == IF s.ui.connection THEN endConnection(s3, target) ELSE s3
    IN IF s4.threw THEN s4
       ELSE dispatch([s4 EXCEPT !.ui.drag = FALSE, !.ui.drag_point = FALSE,
                                !.ui.connection = FALSE, !.ui.ele_selected = Null,
                                !.ui.editor_selected = FALSE],
                     "mouseUp")

\* the connection element of a path or point gains or loses point elements
AddPoints(dom, e, d) ==
    IF ParentIndex(dom, e) = 0 THEN dom
    ELSE [dom EXCEPT !.connections[ParentIndex(dom, e)].pts = @ + d]

\* RerouteManager.createReroutePoint(ele): ele is the selected path; the
\* point is placed at the last press, in canvas coordinates
createReroutePoint(s, ele) ==
    IF ParentVisual(ele) = Draft THEN Throw(s)
    ELSE LET point_x == s.ui.pos_x - s.ui.canvas_x
             s1 == [s EXCEPT !.ui.connection_selected = Null, !.dom = AddPoints(@, ele, 1)]
         IN IF ~RecordResolves(s1, ele) THEN Throw(s1)
            ELSE LET s2 == dispatch(
                             [s1 EXCEPT !.nf[s.mod][ele.b].outputs[ele.c][searchConnection(s, ele) + 1].points =
                                          Append(@, point_x)],
                             "addReroute")
                 IN IF updateConnectionNodesThrows(s2.dom, ele.b) THEN Throw(s2) ELSE s2

\* RerouteManager.removeReroutePoint(ele): ele is the n-th point of its
\* connection element, whose first child is the path, so indexOf gives n
removeReroutePoint(s, ele) ==
    LET numberPointPosition == ele.n
    IN IF ~RecordResolves(s, ele) THEN Throw(s)
       ELSE LET s1 == [s EXCEPT !.nf[s.mod][ele.b].outputs[ele.c][searchConnection(s, ele) + 1].points =
                                   IF numberPointPosition + 1 > Len(@) THEN @
                                   ELSE RemoveAt(@, numberPointPosition + 1),
                                !.dom = AddPoints(@, ele, -1)]
                s2 == dispatch(s1, "removeReroute")
            IN IF updateConnectionNodesThrows(s2.dom, ele.b) THEN Throw(s2) ELSE s2

\* variant: a double click adds a point whatever the option says
rerouteEnabled_always(s) == TRUE

\* dblclick 838: this.reroute
rerouteEnabled(s) == s.rr

\* NodeForge.dblclick(e)
dblclick(s, target) ==
    IF target.tag = "point" THEN removeReroutePoint(s, target)
    ELSE IF s.ui.connection_selected # Null /\ rerouteEnabled(s)
         THEN createReroutePoint(s, s.ui.connection_selected)
    ELSE s

\* NodeForge.contextmenu(e): the delete box goes into the selected node, or
\* into the canvas for a selected connection
contextmenu(s0) ==
    LET s == dispatch(s0, "contextmenu")
    IN IF s.mode \in {"fixed", "view"} THEN Return(s, False)
       ELSE [s EXCEPT !.ui.deletebox =
                IF s.ui.connection_selected # Null /\ ParentVisual(s.ui.connection_selected) # Draft
                THEN Precanvas
                ELSE s.ui.node_selected]

KEY_CODES == {"Delete", "Backspace"}

\* the tags key() and click() treat as editable: an element with the
\* contenteditable attribute is told by the last
EditableTags == {"INPUT", "TEXTAREA", "contenteditable"}

\* variant: the press is never taken to be on an editable element
editableTarget_never(first_click) == FALSE

\* key 697: the last press landed on an INPUT, a TEXTAREA or an element
\* with the contenteditable attribute
editableTarget(first_click) == first_click.tag \in EditableTags

\* key 699-700: the node is gone, and the delete box it held with it
nodeDeleted(s, node) ==
    IF s.threw THEN s
    ELSE dispatch([s EXCEPT !.ui.node_selected = Null,
                            !.ui.deletebox = IF @ = node THEN Null ELSE @],
                  "nodeUnselected")

\* key 696-702
keyNode(s) ==
    IF s.ui.node_selected # Null /\ ~editableTarget(s.ui.first_click)
    THEN nodeDeleted(removeNodeId(s, s.ui.node_selected.a), s.ui.node_selected)
    ELSE s

\* key 705
connectionDeleted(s) == IF s.threw THEN s ELSE [s EXCEPT !.ui.connection_selected = Null]

\* key 703-706
keyConnection(s) ==
    IF s.threw \/ s.ui.connection_selected = Null THEN s
    ELSE connectionDeleted(removeConnection(s))

\* NodeForge.key(e): e.key = k, e.metaKey = metaKey
key(s0, k, metaKey) ==
    LET s == dispatch(s0, "keydown")
    IN IF s.mode \in {"fixed", "view"} THEN Return(s, False)
       ELSE IF ~(k = "Delete" \/ (k = "Backspace" /\ metaKey)) THEN s
       ELSE keyConnection(keyNode(s))

\* pointerdown_handler: the pointer is put in the cache
pointerdown_handler(s) == [s EXCEPT !.ui.evCache = TRUE]

\* pointerup_handler, the listener of pointerup, pointercancel, pointerout
\* and pointerleave: the pointer is taken out of the cache, and nothing
\* else is written
pointerup_handler(s) == [s EXCEPT !.ui.evCache = FALSE]

\* the ids a caller can pass for node k: the number addNode returned, or
\* its string form
IdForms(k) == {Num(k), Str(k)}

\* a cell for an object the caller creates; keep: cells that stay in use
FreshRef(keep) == Min(Refs \ keep)

LiveRefs == StoreRefs(nodeforge) \cup ClientRefs(client)

\* the ports a node has in the store, on one side
PortsOf(k, side) ==
    UNION {DOMAIN Ports(nodeforge[m][k], side) : m \in {x \in DOMAIN nodeforge : k \in DOMAIN nodeforge[x]}}

AddNode(num_in, num_out, d, html) ==
    /\ nodeId <= MaxId
    /\ LET r == FreshRef(LiveRefs)
           s == addNode([Cur EXCEPT !.hp[r] = d], "process", num_in, num_out, r, html)
       IN Commit(s, "addNode", <<num_in, num_out>>)

AddConnection(id_output, id_input, output_class, input_class) ==
    /\ OutRecords(nodeforge) < MaxConns
    /\ InRecords(nodeforge) < MaxConns
    /\ Len(precanvas.connections) < MaxConns
    /\ Commit(addConnection(Cur, id_output, id_input, output_class, input_class),
              "addConnection", <<id_output, id_input, output_class, input_class>>)

RemoveSingleConnection(id_output, id_input, output_class, input_class) ==
    Commit(removeSingleConnection(Cur, id_output, id_input, output_class, input_class),
           "removeSingleConnection", <<id_output, id_input, output_class, input_class>>)

RemoveNodeId(k) == Commit(removeNodeId(Cur, k), "removeNodeId", <<k>>)

\* the port elements node k has in the DOM, on one side
ElementsOf(k, side) == IF k \in DOMAIN precanvas.nodes THEN Ports(precanvas.nodes[k], side) ELSE <<>>

AddNodeInput(id) ==
    /\ Cardinality(PortsOf(id.v, "inputs")) < MaxPort
    /\ Len(ElementsOf(id.v, "inputs")) < MaxPort
    /\ Commit(addNodeInput(Cur, id), "addNodeInput", <<id>>)

AddNodeOutput(id) ==
    /\ Cardinality(PortsOf(id.v, "outputs")) < MaxPort
    /\ Len(ElementsOf(id.v, "outputs")) < MaxPort
    /\ Commit(addNodeOutput(Cur, id), "addNodeOutput", <<id>>)

RemoveNodeInput(id, input_class) ==
    Commit(removeNodeInput(Cur, id, input_class), "removeNodeInput", <<id, input_class>>)

RemoveNodeOutput(id, output_class) ==
    Commit(removeNodeOutput(Cur, id, output_class), "removeNodeOutput", <<id, output_class>>)

AddModule(name) == Commit(addModule(Cur, name), "addModule", <<name>>)

ChangeModule(name) == Commit(changeModule(Cur, name), "changeModule", <<name>>)

ClearModuleSelected == Commit(clearModuleSelected(Cur), "clearModuleSelected", <<>>)

RemoveModule(name) == Commit(removeModule(Cur, name), "removeModule", <<name>>)

Clear == Commit(clear(Cur), "clear", <<>>)

\* the caller builds a new data object holding d and passes it
UpdateNodeDataFromId(id, d) ==
    LET node == nodeforge[getModuleFromNodeId(nodeforge, id)][id.v]
        r == FreshRef(LiveRefs \ {node.data})
    IN /\ HasNode(nodeforge, getModuleFromNodeId(nodeforge, id), id.v)
       /\ Commit(updateNodeDataFromId([Cur EXCEPT !.hp[r] = d], id, r),
                 "updateNodeDataFromId", <<id, d>>)

GetNodeFromId(id) == Commit(getNodeFromId(Cur, id), "getNodeFromId", <<id>>)

Export == Commit(export(Cur), "export", <<>>)

\* editor.import(data) with the object the caller holds from an export
Import ==
    /\ client.kind = "data"
    /\ Commit(import(Cur, client.data, TRUE), "import", <<>>)

\* editor.import(editor.export()): the exported object is a temporary, the
\* caller goes on holding what it held
ImportExport ==
    LET s1 == export(Cur)
        s2 == import(s1, s1.cl.data, TRUE)
    IN Commit([s2 EXCEPT !.cl = client], "importExport", <<>>)

\* editor.updateConnectionNodes('node-<k>')
UpdateConnectionNodes(k) ==
    Commit(updateConnectionNodes(Cur, k), "updateConnectionNodes", <<k>>)

\* editor.zoom_in() / editor.zoom_out(), while the canvas is at its origin
\* (elsewhere the new offset is a fraction of a pixel)
ZoomIn == ui.canvas_x = 0 /\ ui.zoom < MaxZoom /\ Commit(zoom_in(Cur), "zoom_in", <<>>)

ZoomOut == ui.canvas_x = 0 /\ ui.zoom > MinZoom /\ Commit(zoom_out(Cur), "zoom_out", <<>>)

\* editor.removeConnection()
RemoveConnection == Commit(removeConnection(Cur), "removeConnection", <<>>)

\* the caller writes into an object it holds
Mutate(r, d) ==
    /\ r \in ClientRefs(client)
    /\ heap[r] # d
    /\ heap' = [heap EXCEPT ![r] = d]
    /\ events' = <<>>
    /\ last' = [op |-> "mutate", args |-> <<r, d>>, ret |-> Undefined, threw |-> FALSE]
    /\ UNCHANGED <<nodeforge, module, nodeId, precanvas, client, removed, editor_mode, reroute, ui,
                   listeners>>

(***************************************************************************)
(* core/EventManager.js: the listeners.  A callback is a function the      *)
(* caller wrote: id names the function, removes names the function it      *)
(* hands to removeListener for the same event when it runs (0: none).      *)
(***************************************************************************)
EventNames == {"x", "y"}

Callbacks == [id : 1..MaxListeners, removes : 0..MaxListeners]

\* events[e].listeners, empty for an event never registered
ListenersOf(evs, e) == IF e \in DOMAIN evs THEN evs[e] ELSE <<>>

\* the listeners of every event together
Registered(evs) == ListenersOf(evs, "x") \o ListenersOf(evs, "y")

\* listeners.indexOf(callback): the first index holding the function, 0 for -1
indexOf(ls, id) ==
    IF \E i \in 1..Len(ls) : ls[i].id = id
    THEN CHOOSE i \in 1..Len(ls) : ls[i].id = id /\ \A j \in 1..(i - 1) : ls[j].id # id
    ELSE 0

\* listeners.splice(index, 1)
splice(ls, i) == [j \in 1..(Len(ls) - 1) |-> IF j < i THEN ls[j] ELSE ls[j + 1]]

\* EventManager.on(event, callback)
on(evs, e, cb) ==
    LET created == IF e \in DOMAIN evs THEN evs ELSE SetKey(evs, e, <<>>)
    IN  [created EXCEPT ![e] = Append(@, cb)]

\* EventManager.removeListener(event, callback), on an event that exists
removeListener(evs, e, id) ==
    IF e \notin DOMAIN evs THEN evs
    ELSE IF indexOf(evs[e], id) > 0
         THEN [evs EXCEPT ![e] = splice(@, indexOf(evs[e], id))]
         ELSE evs

\* listeners.forEach(listener => listener(details)): the length is read once,
\* the element at each index is read from the live array when the index is
\* reached, and an index the array no longer has is passed over
RECURSIVE forEach(_, _, _, _, _)
forEach(evs, e, k, len, called) ==
    IF k > len THEN [evs |-> evs, called |-> called]
    ELSE IF k > Len(evs[e]) THEN forEach(evs, e, k + 1, len, called)
    ELSE LET cb == evs[e][k]
         IN  forEach(IF cb.removes = 0 THEN evs ELSE removeListener(evs, e, cb.removes),
                     e, k + 1, len,
                     [called EXCEPT !.ids = Append(@, cb.id)])

\* editor.on(event, callback)
On(e, cb) ==
    /\ Len(Registered(listeners)) < MaxListeners
    /\ \A i \in 1..Len(Registered(listeners)) :
          Registered(listeners)[i].id = cb.id => Registered(listeners)[i] = cb
    /\ listeners' = on(listeners, e, cb)
    /\ events' = <<>>
    /\ last' = [op |-> "on", args |-> <<e, cb.id>>, ret |-> Undefined, threw |-> FALSE]
    /\ UNCHANGED <<nodeforge, module, nodeId, precanvas, heap, client, removed, editor_mode,
                   reroute, ui>>

\* editor.removeListener(event, callback)
RemoveListener(e, id) ==
    /\ listeners' = removeListener(listeners, e, id)
    /\ events' = <<>>
    /\ last' = [op |-> "removeListener", args |-> <<e, id>>,
                ret |-> IF e \in DOMAIN listeners THEN Undefined ELSE False, threw |-> FALSE]
    /\ UNCHANGED <<nodeforge, module, nodeId, precanvas, heap, client, removed, editor_mode,
                   reroute, ui>>

\* eventManager.dispatch(event, details); the call's record keeps the array
\* as it was when the call began and the functions it ran, in order
Dispatch(e) ==
    LET start == ListenersOf(listeners, e)
        run == IF e \in DOMAIN listeners
               THEN forEach(listeners, e, 1, Len(listeners[e]), [start |-> start, ids |-> <<>>])
               ELSE [evs |-> listeners, called |-> [start |-> start, ids |-> <<>>]]
    IN  /\ listeners' = run.evs
        /\ events' = <<>>
        /\ last' = [op |-> "dispatch", args |-> <<e, run.called>>,
                    ret |-> IF e \in DOMAIN listeners THEN Undefined ELSE False,
                    threw |-> FALSE]
        /\ UNCHANGED <<nodeforge, module, nodeId, precanvas, heap, client, removed,
                       editor_mode, reroute, ui>>

\* no gesture is in progress
Idle == ~(ui.drag \/ ui.drag_point \/ ui.connection \/ ui.editor_selected)

\* the pointer's x coordinates
Xs == 0..MaxX

\* the elements of the container an event can land on; tags: the kinds of
\* content the nodes are given
Targets(tags) ==
    {Container, Precanvas}
    \cup {NodeEl(k) : k \in DOMAIN precanvas.nodes}
    \cup {FieldEl(k, t) : k \in DOMAIN precanvas.nodes, t \in tags}
    \cup UNION {{InputEl(k, q) : q \in Range(precanvas.nodes[k].inputs)} : k \in DOMAIN precanvas.nodes}
    \cup UNION {{OutputEl(k, p) : p \in Range(precanvas.nodes[k].outputs)} : k \in DOMAIN precanvas.nodes}
    \cup {PathEl(v) : v \in Range(precanvas.connections)}
    \cup UNION {{PointEl(v, n) : n \in 1..v.pts} : v \in Range(precanvas.connections)}
    \cup (IF ui.deletebox = Precanvas \/ (ui.deletebox # Null /\ ui.deletebox.a \in DOMAIN precanvas.nodes)
          THEN {DeleteEl} ELSE {})

\* the inputs a draft can snap to: those of the nodes other than its source
SnapTargets ==
    IF ~ui.connection THEN {Null}
    ELSE {Null} \cup {e \in Targets({}) : e.tag = "input" /\ e.a # ui.ele_selected.a}

\* every coordinate the call leaves is within the modelled range
InRange(s) ==
    /\ s.ui.canvas_x \in -MaxX..MaxX
    /\ \A p \in NodePairs(s.nf) :
          LET node == s.nf[p[1]][p[2]]
          IN /\ node.pos_x \in -MaxX..MaxX
             /\ \A o \in DOMAIN node.outputs : \A j \in DOMAIN node.outputs[o] :
                   /\ Len(node.outputs[o][j].points) <= MaxPoints
                   /\ \A i \in DOMAIN node.outputs[o][j].points :
                         node.outputs[o][j].points[i] \in -MaxX..(2 * MaxX)

\* mousedown / touchstart
Click(target, x) ==
    /\ Idle
    /\ Commit(click(Cur, target, x), "click", <<target, x>>)

\* mousedown / touchstart while a gesture is in progress: the release of
\* the press before it did not reach the container (the button was let go
\* outside it), or a second button or finger goes down
ClickAgain(target, x) ==
    /\ ~Idle
    /\ Len(precanvas.connections) < MaxConns
    /\ Commit(click(Cur, target, x), "click", <<target, x>>)

\* mousemove / touchmove
Position(x, snap) ==
    LET s == position(Cur, x, snap)
    IN InRange(s) /\ Commit(s, "position", <<snap, x>>)

\* mousemove / touchmove at (eX, eY) while the input elements lie at rect
Move(eX, eY, rect) ==
    LET snap == closestInput(Cur, eX, eY, rect)
        s == position(Cur, eX, snap)
    IN InRange(s) /\ Commit(s, "position", <<snap, eX, eY, rect>>)

\* mouseup / touchend
DragEnd(target, x) ==
    LET s == dragEnd(Cur, target, x)
    IN InRange(s) /\ Commit(s, "dragEnd", <<target, x>>)

\* dblclick: the browser sends it after the second release on the element
Dblclick(target) ==
    /\ Idle
    /\ last.op = "dragEnd"
    /\ last.args[1] = target
    /\ LET s == dblclick(Cur, target)
       IN InRange(s) /\ Commit(s, "dblclick", <<target>>)

Contextmenu == Idle /\ Commit(contextmenu(Cur), "contextmenu", <<>>)

\* keydown
Key(k, metaKey) == Commit(key(Cur, k, metaKey), "key", <<k, metaKey>>)

\* pointerdown on the container
Pointerdown == Commit(pointerdown_handler(Cur), "pointerdown", <<>>)

\* pointerup / pointercancel / pointerout / pointerleave on the container
Pointerup(type) == Commit(pointerup_handler(Cur), type, <<>>)

EDITOR_MODES == {"edit", "fixed", "view"}

\* new NodeForge(container), then the options, then start()
StartedWith(mode, rr, ffi) ==
    /\ nodeforge = [m \in {DEFAULT_MODULE} |-> EmptyModule]
    /\ module = DEFAULT_MODULE
    /\ nodeId = START_ID
    /\ precanvas = EmptyDom
    /\ heap = [r \in Refs |-> 0]
    /\ client = NoClient
    /\ events = <<>>
    /\ last = [op |-> "start", args |-> <<>>, ret |-> Undefined, threw |-> FALSE]
    /\ removed = {}
    /\ editor_mode = mode
    /\ reroute = rr
    /\ ui = [NoPointer EXCEPT !.force_first_input = ffi]
    /\ listeners = [e \in {} |-> <<>>]

\* force_first_input left as the constructor sets it
Started(mode, rr) == StartedWith(mode, rr, FALSE)

\* the constructor's options
Init == Started("edit", FALSE)

\* any options
InitOptions == \E mode \in EDITOR_MODES, rr \in BOOLEAN : Started(mode, rr)

Ids == AllNodeIds(nodeforge)

TypedIds == UNION {IdForms(k) : k \in Ids}

\* a call names both nodes in the same form
IdPairs == {pr \in TypedIds \X TypedIds : pr[1].t = pr[2].t}

\* ... and two different nodes
DistinctPairs == {pr \in IdPairs : pr[1].v # pr[2].v}

(***************************************************************************)
(* Connections between two nodes of one module, ids in both forms.         *)
(***************************************************************************)
ConnectAddNode == \E n \in 1..MaxPort : AddNode(n, n, 0, "")

ConnectAddConnection ==
    \E pr \in DistinctPairs :
        \E p \in PortsOf(pr[1].v, "outputs"), q \in PortsOf(pr[2].v, "inputs") :
            AddConnection(pr[1], pr[2], p, q)

ConnectRemoveSingleConnection ==
    \E pr \in DistinctPairs :
        \E p \in PortsOf(pr[1].v, "outputs"), q \in PortsOf(pr[2].v, "inputs") :
            RemoveSingleConnection(pr[1], pr[2], p, q)

ConnectRemoveNodeId == \E k \in Ids : RemoveNodeId(k)

NextConnect ==
    \/ ConnectAddNode
    \/ ConnectAddConnection
    \/ ConnectRemoveSingleConnection
    \/ ConnectRemoveNodeId

SpecConnect == Init /\ [][NextConnect]_vars

(***************************************************************************)
(* Ports removed from connected nodes of one module, ids in both forms.    *)
(***************************************************************************)
\* a node is a source (outputs only) or a sink (inputs only)
Shapes == {<<0, MaxPort>>, <<MaxPort, 0>>}

PortsAddNode == \E shape \in Shapes : AddNode(shape[1], shape[2], 0, "")

PortsAddConnection ==
    \E a \in Ids, b \in Ids :
        \E p \in PortsOf(a, "outputs"), q \in PortsOf(b, "inputs") :
            AddConnection(Str(a), Str(b), p, q)

PortsRemoveNodeInput == \E a \in TypedIds : \E q \in PortsOf(a.v, "inputs") : RemoveNodeInput(a, q)

PortsRemoveNodeOutput == \E a \in TypedIds : \E p \in PortsOf(a.v, "outputs") : RemoveNodeOutput(a, p)

NextPorts ==
    \/ PortsAddNode
    \/ PortsAddConnection
    \/ PortsRemoveNodeInput
    \/ PortsRemoveNodeOutput

SpecPorts == Init /\ [][NextPorts]_vars

(***************************************************************************)
(* Two modules: nodes are added to the active one, connections are asked   *)
(* for between any two nodes, nodes are removed from any module.           *)
(***************************************************************************)
ModulesAddNode == AddNode(1, 1, 0, "")

ModulesAddModule == AddModule("Other")

ModulesChangeModule == \E name \in DOMAIN nodeforge : ChangeModule(name)

ModulesAddConnection ==
    \E pr \in DistinctPairs : \E p \in 1..MaxPort, q \in 1..MaxPort : AddConnection(pr[1], pr[2], p, q)

ModulesRemoveNodeId == \E k \in Ids : RemoveNodeId(k)

NextModules ==
    \/ ModulesAddNode
    \/ ModulesAddModule
    \/ ModulesChangeModule
    \/ ModulesAddConnection
    \/ ModulesRemoveNodeId

SpecModules == Init /\ [][NextModules]_vars

(***************************************************************************)
(* import(export()) over stores with connections and port-numbering gaps.  *)
(***************************************************************************)
RoundTripAddNode == \E shape \in Shapes : AddNode(shape[1], shape[2], 0, "")

RoundTripAddConnection ==
    \E a \in Ids, b \in Ids :
        \E p \in PortsOf(a, "outputs"), q \in PortsOf(b, "inputs") :
            AddConnection(Str(a), Str(b), p, q)

RoundTripRemoveNodeInput == \E a \in Ids : \E q \in PortsOf(a, "inputs") : RemoveNodeInput(Str(a), q)

RoundTripRemoveNodeOutput == \E a \in Ids : \E p \in PortsOf(a, "outputs") : RemoveNodeOutput(Str(a), p)

NextRoundTrip ==
    \/ RoundTripAddNode
    \/ RoundTripAddConnection
    \/ RoundTripRemoveNodeInput
    \/ RoundTripRemoveNodeOutput
    \/ ImportExport

SpecRoundTrip == Init /\ [][NextRoundTrip]_vars

(***************************************************************************)
(* The id counter under every operation that reloads or replaces the store.*)
(***************************************************************************)
IdsAddNode == \E html \in HtmlValues : AddNode(0, 0, 0, html)

IdsRemoveNodeId == \E k \in Ids : RemoveNodeId(k)

IdsAddModule == AddModule("Other")

IdsChangeModule == \E name \in DOMAIN nodeforge : ChangeModule(name)

IdsUpdateNodeDataFromId == \E k \in Ids : UpdateNodeDataFromId(Num(k), 0)

NextIds ==
    \/ IdsAddNode
    \/ IdsRemoveNodeId
    \/ IdsAddModule
    \/ IdsChangeModule
    \/ IdsUpdateNodeDataFromId
    \/ ImportExport
    \/ ClearModuleSelected

SpecIds == Init /\ [][NextIds]_vars

(***************************************************************************)
(* Reads, and what the caller then does with the objects it holds.         *)
(***************************************************************************)
ReadsAddNode == \E d \in DataValues : AddNode(0, 0, d, "")

ReadsGetNodeFromId == \E k \in 1..MaxId : \E id \in IdForms(k) : GetNodeFromId(id)

ReadsMutate == \E r \in Refs, d \in DataValues : Mutate(r, d)

ReadsRemoveNodeId == \E k \in Ids : RemoveNodeId(k)

NextReads ==
    \/ ReadsAddNode
    \/ ReadsGetNodeFromId
    \/ ReadsMutate
    \/ ReadsRemoveNodeId
    \/ Export
    \/ Import

SpecReads == Init /\ [][NextReads]_vars

(***************************************************************************)
(* Ports added after ports were removed, on connected nodes.               *)
(***************************************************************************)
\* the first node is a source, the second a sink
GapsAddNode == AddNode(IF nodeId = START_ID THEN 0 ELSE MaxPort, IF nodeId = START_ID THEN MaxPort ELSE 0, 0, "")

\* one connection at a time
GapsAddConnection ==
    /\ OutRecords(nodeforge) + InRecords(nodeforge) = 0
    /\ precanvas.connections = <<>>
    /\ RoundTripAddConnection

GapsAddNodeInput == \E a \in Ids : AddNodeInput(Str(a))

GapsAddNodeOutput == \E a \in Ids : AddNodeOutput(Str(a))

NextGaps ==
    \/ GapsAddNode
    \/ GapsAddConnection
    \/ RoundTripRemoveNodeInput
    \/ RoundTripRemoveNodeOutput
    \/ GapsAddNodeInput
    \/ GapsAddNodeOutput

SpecGaps == Init /\ [][NextGaps]_vars

(***************************************************************************)
(* Connections between any two nodes of one module, a node and itself      *)
(* included.                                                               *)
(***************************************************************************)
SelfAddConnection ==
    \E pr \in IdPairs :
        \E p \in PortsOf(pr[1].v, "outputs"), q \in PortsOf(pr[2].v, "inputs") :
            AddConnection(pr[1], pr[2], p, q)

SelfRemoveSingleConnection ==
    \E pr \in IdPairs :
        \E p \in PortsOf(pr[1].v, "outputs"), q \in PortsOf(pr[2].v, "inputs") :
            RemoveSingleConnection(pr[1], pr[2], p, q)

NextSelf ==
    \/ ModulesAddNode
    \/ SelfAddConnection
    \/ SelfRemoveSingleConnection
    \/ ConnectRemoveNodeId

SpecSelf == Init /\ [][NextSelf]_vars

(***************************************************************************)
(* clear() on stores with several modules and connected nodes.            *)
(***************************************************************************)
NextClear ==
    \/ NextModules
    \/ Clear

SpecClear == Init /\ [][NextClear]_vars

(***************************************************************************)
(* A read-only editor: editor_mode is 'view' or 'fixed', a saved flow is   *)
(* imported and the pointer and the keyboard are used on it.               *)
(***************************************************************************)
PointLists == UNION {[1..n -> Xs] : n \in 0..MaxPoints}

\* a flow as export() writes it: two nodes, one connection whose record
\* carries the points pts; r: the cell of the nodes' custom data
SavedFlow(pts, r) ==
    [m \in {DEFAULT_MODULE} |->
        [k \in {1, 2} |->
            [id |-> k, name |-> "process", data |-> r, html |-> "", pos_x |-> 0,
             inputs |-> IF k = 2 THEN [p \in {1} |-> <<[node |-> Str(1), input |-> 1]>>]
                        ELSE PortMap(1),
             outputs |-> IF k = 1 THEN [p \in {1} |-> <<[node |-> Str(2), output |-> 1, points |-> pts]>>]
                         ELSE PortMap(1)]]]

\* editor.import(flow)
ImportSaved(pts) ==
    Commit(import(Cur, SavedFlow(pts, FreshRef(LiveRefs)), TRUE), "import", <<pts>>)

ReadOnlyInit == \E mode \in {"view", "fixed"}, rr \in BOOLEAN : Started(mode, rr)

ReadOnlyImport == nodeforge[DEFAULT_MODULE] = EmptyModule /\ \E pts \in PointLists : ImportSaved(pts)

ReadOnlyClick == \E target \in Targets({"INPUT"}), x \in Xs : Click(target, x)

ReadOnlyPosition == \E x \in Xs : Position(x, Null)

ReadOnlyDragEnd == \E target \in Targets({"INPUT"}), x \in Xs : DragEnd(target, x)

ReadOnlyDblclick == \E target \in Targets({"INPUT"}) : Dblclick(target)

ReadOnlyKey == \E k \in KEY_CODES, metaKey \in BOOLEAN : Key(k, metaKey)

NextReadOnly ==
    \/ ReadOnlyImport
    \/ ReadOnlyClick
    \/ ReadOnlyPosition
    \/ ReadOnlyDragEnd
    \/ ReadOnlyDblclick
    \/ Contextmenu
    \/ ReadOnlyKey

SpecReadOnly == ReadOnlyInit /\ [][NextReadOnly]_vars

(***************************************************************************)
(* Connection drafts: presses on outputs, moves with and without a snap,   *)
(* releases anywhere, in an editor with the constructor's options.         *)
(***************************************************************************)
DraftAddNode == AddNode(1, 1, 0, "")

\* a connection made through the API between two gestures
DraftAddConnection ==
    /\ Idle
    /\ \E a \in Ids, b \in Ids : a # b /\ AddConnection(Str(a), Str(b), 1, 1)

DraftClick == \E target \in Targets({}), x \in Xs : Click(target, x)

\* the moves of a draft
DraftPosition == ui.connection /\ \E x \in Xs, snap \in SnapTargets : Position(x, snap)

\* mouseup on an element of the container, or touchend anywhere
DraftDragEnd == \E target \in Targets({}) \cup {Null}, x \in Xs : DragEnd(target, x)

NextDraft ==
    \/ DraftAddNode
    \/ DraftAddConnection
    \/ DraftClick
    \/ DraftPosition
    \/ DraftDragEnd

SpecDraft == Init /\ [][NextDraft]_vars

(***************************************************************************)
(* The keyboard: selections made with the pointer, then a key, in each     *)
(* editor mode.  The pointer stays at x = 0.                               *)
(***************************************************************************)
KeysInit == \E mode \in EDITOR_MODES : Started(mode, FALSE)

KeysAddNode == AddNode(1, 1, 0, "")

KeysAddConnection ==
    /\ Idle
    /\ \E a \in Ids, b \in Ids : a # b /\ AddConnection(Str(a), Str(b), 1, 1)

KeysClick == \E target \in Targets(EditableTags) : Click(target, 0)

KeysDragEnd == \E target \in Targets(EditableTags) : DragEnd(target, 0)

KeysKey == \E k \in KEY_CODES \cup {"a"}, metaKey \in BOOLEAN : Key(k, metaKey)

NextKeys ==
    \/ KeysAddNode
    \/ KeysAddConnection
    \/ KeysClick
    \/ KeysDragEnd
    \/ KeysKey
    \/ Contextmenu

SpecKeys == KeysInit /\ [][NextKeys]_vars

(***************************************************************************)
(* Reroute points: a saved flow whose connection carries points is         *)
(* imported into an editor in 'edit' mode, with reroute on or off, and the *)
(* pointer is used on the connection, its points, the nodes and the        *)
(* canvas.  The pointer moves only while it holds a point, and a release   *)
(* lands on the element that was pressed.                                  *)
(***************************************************************************)
RerouteTargets ==
    {e \in Targets({}) : e.tag \in {"main-path", "point", "nodeforge-node", "nodeforge"}}

RerouteInit == \E rr \in BOOLEAN : Started("edit", rr)

RerouteImport ==
    /\ nodeId = START_ID
    /\ \E n \in 0..MaxPoints : ImportSaved([i \in 1..n |-> 0])

RerouteClick == \E target \in RerouteTargets, x \in Xs : Click(target, x)

RerouteDragEnd ==
    /\ last.op \in {"click", "position"}
    /\ \E x \in IF ui.drag_point THEN Xs ELSE {ui.pos_x} : DragEnd(ui.first_click, x)

\* the moves of a point
ReroutePosition == ui.drag_point /\ \E x \in Xs : Position(x, Null)

RerouteDblclick == \E target \in RerouteTargets : Dblclick(target)

NextReroute ==
    \/ RerouteImport
    \/ RerouteClick
    \/ ReroutePosition
    \/ RerouteDragEnd
    \/ RerouteDblclick

SpecReroute == RerouteInit /\ [][NextReroute]_vars

(***************************************************************************)
(* Modules are added, switched to, filled and removed.                     *)
(***************************************************************************)
RemovalAddNode == \E html \in HtmlValues : AddNode(1, 1, 0, html)

RemovalAddModule == AddModule("Other")

RemovalChangeModule == \E name \in DOMAIN nodeforge : ChangeModule(name)

RemovalRemoveModule == \E name \in DOMAIN nodeforge : RemoveModule(name)

RemovalUpdateNodeDataFromId == \E a \in TypedIds, d \in DataValues : UpdateNodeDataFromId(a, d)

NextRemoval ==
    \/ RemovalAddNode
    \/ RemovalAddModule
    \/ RemovalChangeModule
    \/ RemovalRemoveModule
    \/ RemovalUpdateNodeDataFromId

SpecRemoval == Init /\ [][NextRemoval]_vars

(***************************************************************************)
(* Custom data: a saved flow whose nodes have content or none and whose    *)
(* connection carries points is imported, a second module is added and     *)
(* switched to, and the data of the nodes is replaced.                     *)
(***************************************************************************)
\* a saved flow whose nodes have the content html
ContentFlow(pts, r, html) ==
    [m \in {DEFAULT_MODULE} |->
        [k \in {1, 2} |-> [SavedFlow(pts, r)[m][k] EXCEPT !.html = html]]]

DataInit == \E rr \in BOOLEAN : Started("edit", rr)

DataImport ==
    /\ nodeId = START_ID
    /\ \E n \in 0..MaxPoints, html \in HtmlValues :
          Commit(import(Cur, ContentFlow([i \in 1..n |-> 0], FreshRef(LiveRefs), html), TRUE),
                 "import", <<n>>)

DataAddModule == AddModule("Other")

DataChangeModule == \E name \in DOMAIN nodeforge : ChangeModule(name)

DataUpdateNodeDataFromId == \E a \in TypedIds, d \in DataValues : UpdateNodeDataFromId(a, d)

NextData ==
    \/ DataImport
    \/ DataAddModule
    \/ DataChangeModule
    \/ DataUpdateNodeDataFromId

SpecData == DataInit /\ [][NextData]_vars

(***************************************************************************)
(* Presses that are not all followed by their release on the container.    *)
(* The pointer goes down at x = 0.                                         *)
(***************************************************************************)
PressesAddNode == AddNode(1, 1, 0, "")

PressesClick == \E target \in Targets({}) : Click(target, 0)

PressesClickAgain == \E target \in Targets({}) : ClickAgain(target, 0)

PressesPosition == ~Idle /\ \E x \in Xs : Position(x, Null)

\* the release reaches the container's background
PressesDragEnd == \E x \in Xs : DragEnd(Container, x)

NextPresses ==
    \/ PressesAddNode
    \/ PressesClick
    \/ PressesClickAgain
    \/ PressesPosition
    \/ PressesDragEnd

SpecPresses == Init /\ [][NextPresses]_vars

(***************************************************************************)
(* force_first_input on and off: nodes with two inputs, inputs removed     *)
(* between gestures, drafts begun on outputs and released on ports, on     *)
(* nodes, inside their content and on the canvas.  The pointer stays at    *)
(* x = 0.                                                                  *)
(***************************************************************************)
ForceInit == \E ffi \in BOOLEAN : StartedWith("edit", FALSE, ffi)

ForceAddNode == AddNode(MaxPort, 1, 0, "")

ForceRemoveNodeInput ==
    /\ Idle
    /\ \E k \in Ids : \E q \in PortsOf(k, "inputs") : RemoveNodeInput(Str(k), q)

ForceClick == \E target \in {e \in Targets({}) : e.tag = "output"} : Click(target, 0)

\* a release that threw after the draft had been given the classes of a
\* connection: the gesture is not followed further
HalfSaved == ui.connection_ele /\ Draft \notin Range(precanvas.connections)

ForcePosition == ui.connection /\ ~HalfSaved /\ \E snap \in SnapTargets : Position(0, snap)

\* the store holds at most MaxConns records on a side
ForceDragEnd ==
    /\ ~HalfSaved
    /\ ui.connection => OutRecords(nodeforge) < MaxConns
    /\ \E target \in Targets({"DIV"}) : DragEnd(target, 0)

NextForce ==
    \/ ForceAddNode
    \/ ForceRemoveNodeInput
    \/ ForceClick
    \/ ForcePosition
    \/ ForceDragEnd

SpecForce == ForceInit /\ [][NextForce]_vars

(***************************************************************************)
(* The pointer leaves the container in the middle of a gesture.  A press   *)
(* is a pointerdown followed by a mousedown, a release a pointerup         *)
(* followed by a mouseup; the pointer can leave at any time, and come back *)
(* to be released.  A saved flow with a reroute point is on the canvas.    *)
(***************************************************************************)
LeaveInit == Started("edit", TRUE)

LeaveImport == nodeId = START_ID /\ ImportSaved(<<0>>)

LeavePointerdown == Idle /\ last.op # "pointerdown" /\ Pointerdown

LeaveClick == last.op = "pointerdown" /\ \E target \in Targets({}) : Click(target, 0)

LeavePosition == ~Idle /\ \E x \in Xs, snap \in SnapTargets : Position(x, snap)

LeavePointerleave ==
    /\ last.op \notin {"start", "pointerdown", "pointerup"}
    /\ \E type \in {"pointerleave", "pointerout", "pointercancel"} : Pointerup(type)

LeavePointerup == ~Idle /\ last.op # "pointerup" /\ Pointerup("pointerup")

LeaveDragEnd == last.op = "pointerup" /\ \E target \in Targets({}), x \in Xs : DragEnd(target, x)

NextLeave ==
    \/ LeaveImport
    \/ LeavePointerdown
    \/ LeaveClick
    \/ LeavePosition
    \/ LeavePointerleave
    \/ LeavePointerup
    \/ LeaveDragEnd

SpecLeave == LeaveInit /\ [][NextLeave]_vars

(***************************************************************************)
(* Listeners: the calls that dispatch the node, connection and module      *)
(* events, on one or two modules.  Ids are passed as strings.              *)
(***************************************************************************)
OrderAddNode == AddNode(1, 1, 0, "")

OrderAddConnection ==
    \E a \in Ids, b \in Ids : a # b /\ AddConnection(Str(a), Str(b), 1, 1)

OrderRemoveSingleConnection ==
    \E a \in Ids, b \in Ids : a # b /\ RemoveSingleConnection(Str(a), Str(b), 1, 1)

OrderRemoveNodeId == \E k \in Ids : RemoveNodeId(k)

OrderRemoveNodeInput ==
    \E k \in Ids : \E q \in PortsOf(k, "inputs") : RemoveNodeInput(Str(k), q)

OrderAddModule == AddModule("Other")

OrderChangeModule == \E name \in DOMAIN nodeforge : ChangeModule(name)

OrderRemoveModule == \E name \in DOMAIN nodeforge : RemoveModule(name)

NextOrder ==
    \/ OrderAddNode
    \/ OrderAddConnection
    \/ OrderRemoveSingleConnection
    \/ OrderRemoveNodeId
    \/ OrderRemoveNodeInput
    \/ OrderAddModule
    \/ OrderChangeModule
    \/ OrderRemoveModule

SpecOrder == Init /\ [][NextOrder]_vars

(***************************************************************************)
(* Magnetic snap: two nodes with two inputs each; a connection is drawn    *)
(* from an output, the pointer moves while the input elements lie at some  *)
(* centres, and the button is released over the container.  One connection *)
(* is made.                                                                *)
(***************************************************************************)
\* the pointer's positions and the centres an input element can have
Pointers == {<<0, 0>>, <<6, 0>>}

Centres == {<<24, 0>>, <<0, 24>>, <<18, 24>>}

\* getBoundingClientRect of every input element
SnapRects == [Range(querySelectorAllInputs(precanvas, Ascending(DOMAIN precanvas.nodes))) -> Centres]

SnapAddNode == AddNode(MaxPort, 1, 0, "")

\* a draft is drawn while the store holds no connection
SnapClick ==
    /\ OutRecords(nodeforge) = 0
    /\ \E target \in {e \in Targets({}) : e.tag = "output"} : Click(target, 0)

SnapMove == ui.connection /\ \E p \in Pointers, rect \in SnapRects : Move(p[1], p[2], rect)

SnapDragEnd == DragEnd(Container, 0)

NextSnap ==
    \/ SnapAddNode
    \/ SnapClick
    \/ SnapMove
    \/ SnapDragEnd

SpecSnap == Init /\ [][NextSnap]_vars

(***************************************************************************)
(* Refreshing the connections of a node: a node with outputs and a node    *)
(* with inputs, one connection, ports removed, the flow exported and       *)
(* imported again, and updateConnectionNodes called for a node element.    *)
(***************************************************************************)
RefreshUpdateConnectionNodes == \E k \in DOMAIN precanvas.nodes : UpdateConnectionNodes(k)

NextRefresh ==
    \/ GapsAddNode
    \/ GapsAddConnection
    \/ RoundTripRemoveNodeInput
    \/ RoundTripRemoveNodeOutput
    \/ ImportExport
    \/ RefreshUpdateConnectionNodes

SpecRefresh == Init /\ [][NextRefresh]_vars

(***************************************************************************)
(* Switching modules with the view moved: nodes and a connection are       *)
(* added, a second module is added, the canvas is zoomed and panned, and   *)
(* the active module is changed.                                           *)
(***************************************************************************)
SwitchAddNode == AddNode(1, 1, 0, "")

SwitchAddConnection ==
    \E a \in Ids, b \in Ids : a # b /\ AddConnection(Str(a), Str(b), 1, 1)

SwitchAddModule == AddModule("Other")

SwitchChangeModule == \E name \in DOMAIN nodeforge : ChangeModule(name)

\* a press on the canvas background and the release that ends the pan
SwitchClick == Click(Precanvas, 0)

SwitchDragEnd == ui.editor_selected /\ \E x \in Xs : DragEnd(Container, x)

NextSwitch ==
    \/ SwitchAddNode
    \/ SwitchAddConnection
    \/ SwitchAddModule
    \/ SwitchChangeModule
    \/ ZoomIn
    \/ ZoomOut
    \/ SwitchClick
    \/ SwitchDragEnd

SpecSwitch == Init /\ [][NextSwitch]_vars

(***************************************************************************)
(* Selections and the calls that take the selected thing away: a node or   *)
(* a connection is selected with the pointer, then nodes are removed       *)
(* through the API or the active module is changed, and Delete is pressed. *)
(***************************************************************************)
SelectClick ==
    \E target \in {e \in Targets({}) : e.tag \in {"nodeforge-node", "main-path"}} : Click(target, 0)

SelectDragEnd == ~Idle /\ DragEnd(ui.first_click, 0)

SelectRemoveNodeId == Idle /\ \E k \in Ids : RemoveNodeId(k)

SelectChangeModule == Idle /\ \E name \in DOMAIN nodeforge : ChangeModule(name)

SelectKey == Idle /\ Key("Delete", FALSE)

NextSelect ==
    \/ KeysAddNode
    \/ KeysAddConnection
    \/ SelectClick
    \/ SelectDragEnd
    \/ SelectRemoveNodeId
    \/ SwitchAddModule
    \/ SelectChangeModule
    \/ SelectKey

SpecSelect == Init /\ [][NextSelect]_vars

(***************************************************************************)
(* Removing the selected connection: a node with one output and a node     *)
(* with inputs, connections between them, one of them selected with the    *)
(* pointer, connections removed by their endpoints, and removeConnection.  *)
(***************************************************************************)
UnlinkAddNode == AddNode(IF nodeId = START_ID THEN 0 ELSE MaxPort, IF nodeId = START_ID THEN 1 ELSE 0, 0, "")

UnlinkAddConnection ==
    /\ Idle
    /\ \E a \in Ids, b \in Ids :
          \E p \in PortsOf(a, "outputs"), q \in PortsOf(b, "inputs") :
              AddConnection(Str(a), Str(b), p, q)

UnlinkClick == \E target \in {e \in Targets({}) : e.tag = "main-path"} : Click(target, 0)

UnlinkDragEnd == last.op = "click" /\ DragEnd(ui.first_click, 0)

UnlinkRemoveSingleConnection ==
    /\ Idle
    /\ \E a \in Ids, b \in Ids :
          \E p \in PortsOf(a, "outputs"), q \in PortsOf(b, "inputs") :
              RemoveSingleConnection(Str(a), Str(b), p, q)

UnlinkRemoveConnection == Idle /\ RemoveConnection

NextUnlink ==
    \/ UnlinkAddNode
    \/ UnlinkAddConnection
    \/ UnlinkClick
    \/ UnlinkDragEnd
    \/ UnlinkRemoveSingleConnection
    \/ UnlinkRemoveConnection

SpecUnlink == Init /\ [][NextUnlink]_vars

(***************************************************************************)
(* The listeners: registrations, removals and dispatches, in any order.    *)
(***************************************************************************)
ListenersOn == \E e \in EventNames, cb \in Callbacks : On(e, cb)

ListenersRemoveListener == \E e \in EventNames, id \in 1..MaxListeners : RemoveListener(e, id)

ListenersDispatch == \E e \in EventNames : Dispatch(e)

NextListeners == ListenersOn \/ ListenersRemoveListener \/ ListenersDispatch

SpecListeners == Init /\ [][NextListeners]_vars

(***************************************************************************)
(* Every operation.                                                        *)
(***************************************************************************)
NextPortAdditions ==
    \/ \E a \in TypedIds : AddNodeInput(a)
    \/ \E a \in TypedIds : AddNodeOutput(a)

SpecPortAdditions == Init /\ [][ConnectAddNode \/ NextPortAdditions]_vars

Next ==
    \/ NextConnect
    \/ NextPorts
    \/ NextPortAdditions
    \/ NextModules
    \/ NextRoundTrip
    \/ NextIds
    \/ NextReads
    \/ NextClear
    \/ NextGaps
    \/ NextSelf
    \/ NextReadOnly
    \/ NextDraft
    \/ NextKeys
    \/ NextReroute
    \/ NextRemoval
    \/ NextData
    \/ NextPresses
    \/ NextForce
    \/ NextLeave
    \/ NextOrder
    \/ NextSnap
    \/ NextRefresh
    \/ NextSwitch
    \/ NextSelect
    \/ NextUnlink
    \/ NextListeners

Spec == Init /\ [][Next]_vars

(***************************************************************************)
(* Properties.                                                             *)
(***************************************************************************)
\* the modules that hold node k
OwnersOf(k) == {m \in DOMAIN nodeforge : k \in DOMAIN nodeforge[m]}

\* how many records of a's port output_<p> in module m name (b, input_<q>)
CountOut(nf, m, a, p, b, q) ==
    IF HasNode(nf, m, a) /\ p \in DOMAIN nf[m][a].outputs
    THEN Cardinality({i \in DOMAIN nf[m][a].outputs[p] :
                         /\ nf[m][a].outputs[p][i].node = Str(b)
                         /\ nf[m][a].outputs[p][i].output = q})
    ELSE 0

\* how many records of b's port input_<q> in module m name (a, output_<p>)
CountIn(nf, m, a, p, b, q) ==
    IF HasNode(nf, m, b) /\ q \in DOMAIN nf[m][b].inputs
    THEN Cardinality({i \in DOMAIN nf[m][b].inputs[q] :
                         nf[m][b].inputs[q][i] = [node |-> Str(a), input |-> p]})
    ELSE 0

\* some record of the store names node k
Named(nf, k) ==
    \E pr \in NodePairs(nf) :
        LET node == nf[pr[1]][pr[2]]
        IN \/ \E p \in DOMAIN node.outputs : \E i \in DOMAIN node.outputs[p] : node.outputs[p][i].node.v = k
           \/ \E q \in DOMAIN node.inputs : \E i \in DOMAIN node.inputs[q] : node.inputs[q][i].node.v = k

\* C1: pairing. In every reachable state, for all nodes A, B of a module
\* and ports p, q, A.outputs[p] holds a record to (B, q) exactly when
\* B.inputs[q] holds a record to (A, p), and each side holds at most one.
C1_Pairing ==
    \A m \in DOMAIN nodeforge, a \in 1..MaxId, b \in 1..MaxId, p \in 1..MaxPort, q \in 1..MaxPort :
        /\ CountOut(nodeforge, m, a, p, b, q) = CountIn(nodeforge, m, a, p, b, q)
        /\ CountOut(nodeforge, m, a, p, b, q) <= 1

\* C2: a call addConnection(A, B, p, q) made when A.outputs[p] already holds
\* a record to (B, q) returns false, dispatches no connectionCreated and
\* leaves the store as it was; a call that returns true leaves exactly one
\* record on each side.  Ids as numbers and as strings.
C2_SecondCallRefused ==
    [][last'.op = "addConnection" =>
        LET a == last'.args[1].v
            b == last'.args[2].v
            p == last'.args[3]
            q == last'.args[4]
        IN /\ (\E m \in DOMAIN nodeforge : CountOut(nodeforge, m, a, p, b, q) > 0)
                => (last'.ret = False /\ events' = <<>> /\ nodeforge' = nodeforge)
           /\ last'.ret = True
                => \E m \in DOMAIN nodeforge' :
                      /\ CountOut(nodeforge', m, a, p, b, q) = 1
                      /\ CountIn(nodeforge', m, a, p, b, q) = 1]_vars

\* the events removeNodeId(k) is to dispatch: one connectionRemoved per
\* outgoing and per incoming connection of k, then the one nodeRemoved
CascadeEvents(nf, k) ==
    LET m == CHOOSE x \in DOMAIN nf : k \in DOMAIN nf[x]
        n == SumLens(nf[m][k].outputs, DOMAIN nf[m][k].outputs)
        mm == SumLens(nf[m][k].inputs, DOMAIN nf[m][k].inputs)
    IN [i \in 1..(n + mm) |-> "connectionRemoved"] \o <<"nodeRemoved">>

\* C3: module isolation. addConnection(a, b, p, q) with a and b in
\* different modules returns false, changes no connection list in any
\* module, creates no visual and dispatches no event, whatever the ports
\* and whichever module is active.
C3_ModuleIsolation ==
    [][(/\ last'.op = "addConnection"
        /\ OwnersOf(last'.args[1].v) # {}
        /\ OwnersOf(last'.args[2].v) # {}
        /\ OwnersOf(last'.args[1].v) \cap OwnersOf(last'.args[2].v) = {})
       => (/\ last'.ret = False
           /\ ~last'.threw
           /\ nodeforge' = nodeforge
           /\ precanvas' = precanvas
           /\ events' = <<>>)]_vars

\* C3 witness: a call between nodes of different modules has been refused
C3_Witness ==
    /\ last.op = "addConnection"
    /\ last.ret = False
    /\ OwnersOf(last.args[1].v) # {}
    /\ OwnersOf(last.args[2].v) # {}
    /\ OwnersOf(last.args[1].v) \cap OwnersOf(last.args[2].v) = {}
    /\ module \notin OwnersOf(last.args[1].v)

\* C4: cascade delete. removeNodeId on an existing node with n outgoing
\* and m incoming connections, whichever module is active and whichever
\* owns the node, dispatches exactly n + m connectionRemoved, all before
\* the single nodeRemoved, and afterwards no record names the deleted id.
\* Stated for stores in which every connection has its two records.
C4_CascadeDelete ==
    [][(last'.op = "removeNodeId" /\ OwnersOf(last'.args[1]) # {} /\ C1_Pairing)
       => (/\ ~last'.threw
           /\ events' = CascadeEvents(nodeforge, last'.args[1])
           /\ ~Named(nodeforge', last'.args[1]))]_vars

\* the store with every data reference replaced by the object's content
StoreView == [m \in DOMAIN nodeforge |->
                [k \in DOMAIN nodeforge[m] |->
                    [nodeforge[m][k] EXCEPT !.data = heap[nodeforge[m][k].data]]]]

\* C5: round trip. For every store reachable through the public API,
\* import(export()) completes, dispatches the import event and leaves a
\* store deep-equal to the one before.
C5_RoundTrip ==
    [][last'.op = "importExport"
       => (/\ ~last'.threw
           /\ "import" \in Range(events')
           /\ StoreView' = StoreView)]_vars

\* C6: the newest node k (k = nodeId - 1) removed with removeNodeId leaves
\* the counter at k + 1, and the addNode that follows the removal returns
\* k + 1.
C6_NextIdAfterRemoval ==
    [][/\ (/\ last'.op = "removeNodeId"
           /\ OwnersOf(last'.args[1]) # {}
           /\ last'.args[1] = nodeId - 1)
          => (~last'.threw /\ nodeId' = nodeId)
       /\ (/\ last.op = "removeNodeId"
           /\ ~last.threw
           /\ last.args[1] = nodeId - 1
           /\ last'.op = "addNode")
          => last'.ret = Num(last.args[1] + 1)]_vars

\* C6 witness: the node with the id before the one just returned has been
\* removed
C6_Witness ==
    /\ last.op = "addNode"
    /\ ~last.threw
    /\ last.ret.v > START_ID
    /\ (last.ret.v - 1) \in removed
    /\ nodeId = last.ret.v + 1

\* C7: in sequential mode the counter never decreases and addNode never
\* returns the id of a node that removeNodeId deleted earlier.
C7_NoReuse ==
    [][/\ nodeId' >= nodeId
       /\ last'.op = "addNode" => last'.ret.v \notin removed]_vars

\* C8: removeNodeInput(id, port) / removeNodeOutput(id, port) that returns
\* leaves no record naming (id, port), with id passed as a number or as a
\* string.
C8_NoRecordLeft ==
    /\ (last.op = "removeNodeInput" /\ ~last.threw)
         => \A m \in DOMAIN nodeforge, a \in 1..MaxId, p \in 1..MaxPort :
               CountOut(nodeforge, m, a, p, last.args[1].v, last.args[2]) = 0
    /\ (last.op = "removeNodeOutput" /\ ~last.threw)
         => \A m \in DOMAIN nodeforge, b \in 1..MaxId, q \in 1..MaxPort :
               CountIn(nodeforge, m, last.args[1].v, last.args[2], b, q) = 0

\* C9: reads are isolated. A write by the caller into the object returned
\* by getNodeFromId or export, or into the object it passed to import,
\* changes nothing in the store.
C9_ReadsIsolated ==
    [][last'.op = "mutate" => (StoreView' = StoreView /\ nodeforge' = nodeforge)]_vars

\* C9 witness: the caller has written into the copy of a node that it got
\* from getNodeFromId, and the copy now differs from the node in the store
C9_Witness ==
    /\ last.op = "mutate"
    /\ client.kind = "node"
    /\ \E m \in DOMAIN nodeforge :
          /\ client.node.id \in DOMAIN nodeforge[m]
          /\ heap[nodeforge[m][client.node.id].data] # heap[client.node.data]

\* C10: getNodeFromId(id) for an id that is in no module ends without an
\* uncaught error.
C10_NotFoundIsExplicit ==
    (last.op = "getNodeFromId" /\ OwnersOf(last.args[1].v) = {}) => ~last.threw

\* C11: right after construction and right after every clear(), the store
\* holds the module Home with no node, and no other module.
C11_HomeAfterClear ==
    last.op \in {"start", "clear"}
        => (/\ DOMAIN nodeforge = {DEFAULT_MODULE}
            /\ nodeforge[DEFAULT_MODULE] = EmptyModule
            /\ ~last.threw)

\* C11 witness: clear() was called after nodes had been added, with a
\* second module active
C11_Witness ==
    /\ last.op = "clear"
    /\ module # DEFAULT_MODULE
    /\ nodeId > START_ID
    /\ DOMAIN nodeforge = {DEFAULT_MODULE}

\* C12: addNode(name, numIn, numOut, ...) stores in the active module, and
\* in no other, a node with the ports input_1..input_numIn and
\* output_1..output_numOut, each with an empty connection list, returns
\* the node's id and dispatches nodeCreated once the record is stored.
C12_AddNodeStores ==
    [][last'.op = "addNode" =>
        LET k == last'.ret.v
        IN /\ ~last'.threw
           /\ last'.ret = Num(nodeId)
           /\ module' = module
           /\ HasNode(nodeforge', module, k)
           /\ {m \in DOMAIN nodeforge' : k \in DOMAIN nodeforge'[m]} = {module}
           /\ nodeforge'[module][k].inputs = PortMap(last'.args[1])
           /\ nodeforge'[module][k].outputs = PortMap(last'.args[2])
           /\ events' = <<"nodeCreated">>]_vars

\* C13: addNodeInput(id) / addNodeOutput(id) on a node with n ports on that
\* side adds the one port numbered n + 1 with an empty connection list:
\* the node then has n + 1 ports on that side and every port it had keeps
\* its connection list, also when earlier removals left gaps.
C13_AppendsNextPort ==
    [][(/\ last'.op \in {"addNodeInput", "addNodeOutput"}
        /\ OwnersOf(last'.args[1].v) # {})
       => LET side == IF last'.op = "addNodeInput" THEN "inputs" ELSE "outputs"
              k == last'.args[1].v
              m == CHOOSE x \in OwnersOf(k) : TRUE
              old == Ports(nodeforge[m][k], side)
              n == Cardinality(DOMAIN old)
          IN /\ ~last'.threw
             /\ HasNode(nodeforge', m, k)
             /\ DOMAIN Ports(nodeforge'[m][k], side) = DOMAIN old \cup {n + 1}
             /\ Cardinality(DOMAIN Ports(nodeforge'[m][k], side)) = n + 1
             /\ Ports(nodeforge'[m][k], side)[n + 1] = <<>>
             /\ \A p \in DOMAIN old : Ports(nodeforge'[m][k], side)[p] = old[p]]_vars

\* one less, when there is one
Less(n) == IF n > 0 THEN n - 1 ELSE 0

\* C19: removeSingleConnection(out, in, p, q) for two nodes of one module,
\* ids as numbers or as strings, removes the record (in, q) from
\* out.outputs[p] and the record (out, p) from in.inputs[q] when present,
\* removes the matching visual, dispatches connectionRemoved and changes
\* no other connection list.
C19_RemoveSingleConnection ==
    [][(/\ last'.op = "removeSingleConnection"
        /\ OwnersOf(last'.args[1].v) \cap OwnersOf(last'.args[2].v) # {})
       => LET a == last'.args[1].v
              b == last'.args[2].v
              p == last'.args[3]
              q == last'.args[4]
              m == CHOOSE x \in OwnersOf(a) \cap OwnersOf(b) : TRUE
          IN /\ ~last'.threw
             /\ events' = <<"connectionRemoved">>
             /\ CountOut(nodeforge', m, a, p, b, q) = Less(CountOut(nodeforge, m, a, p, b, q))
             /\ CountIn(nodeforge', m, a, p, b, q) = Less(CountIn(nodeforge, m, a, p, b, q))
             /\ Cardinality(MatchVisual(precanvas', b, a, p, q))
                   = Less(Cardinality(MatchVisual(precanvas, b, a, p, q)))
             /\ DOMAIN nodeforge' = DOMAIN nodeforge
             /\ \A pr \in NodePairs(nodeforge) :
                   /\ HasNode(nodeforge', pr[1], pr[2])
                   /\ \A x \in DOMAIN nodeforge[pr[1]][pr[2]].outputs :
                         (pr # <<m, a>> \/ x # p)
                             => nodeforge'[pr[1]][pr[2]].outputs[x] = nodeforge[pr[1]][pr[2]].outputs[x]
                   /\ \A y \in DOMAIN nodeforge[pr[1]][pr[2]].inputs :
                         (pr # <<m, b>> \/ y # q)
                             => nodeforge'[pr[1]][pr[2]].inputs[y] = nodeforge[pr[1]][pr[2]].inputs[y]]_vars

\* C15: no self-loops. In every reachable state no connection record of a
\* node names the node itself; addConnection(A, A, p, q) creates nothing.
C15_NoSelfLoop ==
    \A pr \in NodePairs(nodeforge) :
        LET node == nodeforge[pr[1]][pr[2]]
        IN /\ \A p \in DOMAIN node.outputs : \A i \in DOMAIN node.outputs[p] :
                 node.outputs[p][i].node.v # pr[2]
           /\ \A q \in DOMAIN node.inputs : \A i \in DOMAIN node.inputs[q] :
                 node.inputs[q][i].node.v # pr[2]

\* C17: in editor_mode 'view' no mousedown, mousemove or mouseup changes
\* canvas_x or dispatches a translate event.
C17_NoPanInView ==
    [][editor_mode = "view" /\ last'.op \in {"click", "position", "dragEnd"}
          => ui'.canvas_x = ui.canvas_x /\ "translate" \notin Range(events')]_vars

\* C16: in editor_mode 'view' or 'fixed' no pointer event (press, move,
\* release, double click, context menu) changes the graph store.
C16_ReadOnlyStore ==
    [][/\ editor_mode \in {"view", "fixed"}
       /\ last'.op \in {"click", "position", "dragEnd", "dblclick", "contextmenu"}
          => nodeforge' = nodeforge]_vars

\* how many times event e was dispatched
Times(ev, e) == Cardinality({i \in DOMAIN ev : ev[i] = e})

\* the connection elements other than drafts, in document order
Persistent(conns) ==
    [j \in 1..Cardinality({i \in DOMAIN conns : conns[i] # Draft}) |->
        conns[Ascending({i \in DOMAIN conns : conns[i] # Draft})[j]]]

\* C14: a release that ends a connection draft has exactly one of two
\* outcomes.  When the element it resolves to (the snapped input, else the
\* element under the pointer) is an input of another node and the store
\* does not hold that pairing yet: both records are appended, the draft
\* becomes the connection's element, connectionCreated is dispatched once
\* and connectionCancel is not.  Otherwise: the store is unchanged, the
\* draft is removed, connectionCancel is dispatched once and
\* connectionCreated is not.
C14_DraftOutcome ==
    [][last'.op = "dragEnd" /\ ui.connection =>
        LET src == ui.ele_selected
            t == IF ui.lastSnapTarget # Null THEN ui.lastSnapTarget ELSE last'.args[1]
            eligible == /\ t.tag = "input"
                        /\ t.a # src.a
                        /\ CountOut(nodeforge, module, src.a, src.b, t.a, t.b) = 0
        IN /\ ~last'.threw
           /\ Draft \notin Range(precanvas'.connections)
           /\ IF eligible
              THEN /\ nodeforge' =
                        [nodeforge EXCEPT
                           ![module][src.a].outputs[src.b] =
                               Append(@, [node |-> Str(t.a), output |-> t.b, points |-> <<>>]),
                           ![module][t.a].inputs[t.b] =
                               Append(@, [node |-> Str(src.a), input |-> src.b])]
                   /\ Persistent(precanvas'.connections) =
                        Append(Persistent(precanvas.connections), Visual(t.a, src.a, src.b, t.b))
                   /\ Times(events', "connectionCreated") = 1
                   /\ Times(events', "connectionCancel") = 0
              ELSE /\ nodeforge' = nodeforge
                   /\ Persistent(precanvas'.connections) = Persistent(precanvas.connections)
                   /\ Times(events', "connectionCreated") = 0
                   /\ Times(events', "connectionCancel") = 1]_vars

\* the records of list q that do not name node k
NotNaming(q, k) ==
    [j \in 1..Cardinality({i \in DOMAIN q : q[i].node # Str(k)}) |->
        q[Ascending({i \in DOMAIN q : q[i].node # Str(k)})[j]]]

\* the store without node k of module m and without the records naming it
WithoutNode(nf, m, k) ==
    [nf EXCEPT ![m] =
        [j \in DOMAIN nf[m] \ {k} |->
            [nf[m][j] EXCEPT !.inputs = [q \in DOMAIN @ |-> NotNaming(@[q], k)],
                             !.outputs = [p \in DOMAIN @ |-> NotNaming(@[p], k)]]]]

\* the store without the two records of the connection whose path is e
WithoutConnection(nf, m, e) ==
    [nf EXCEPT ![m][e.b].outputs[e.c] =
                   RemoveFirst(@, [node |-> Str(e.a), output |-> e.d, points |-> <<>>]),
               ![m][e.a].inputs[e.d] =
                   RemoveFirst(@, [node |-> Str(e.b), input |-> e.c])]

RecordsAt(nf, m, k, p) ==
    IF HasNode(nf, m, k) /\ p \in DOMAIN nf[m][k].outputs THEN Range(nf[m][k].outputs[p]) ELSE {}

\* C20: with reroute = false, no press, move, release or double click adds,
\* removes or moves an entry of a record's points list (a record that is
\* there before and after has the same points, and a record that appears
\* has none), and every connection element holds zero point elements,
\* whatever points its record carries.
C20_RerouteOff ==
    [][~reroute =>
        /\ \A v \in Range(precanvas'.connections) : v.pts = 0
        /\ last'.op \in {"click", "position", "dragEnd", "dblclick"} =>
              \A m \in DOMAIN nodeforge', k \in 1..MaxId, p \in 1..MaxPort :
                \A r \in RecordsAt(nodeforge', m, k, p) :
                    \/ r \in RecordsAt(nodeforge, m, k, p)
                    \/ /\ r.points = <<>>
                       /\ \A o \in RecordsAt(nodeforge, m, k, p) :
                             ~(o.node = r.node /\ o.output = r.output)]_vars

\* reroute is off, the connection's record carries points, the connection
\* is selected and has just been double-clicked
C20_Witness ==
    /\ ~reroute
    /\ last.op = "dblclick"
    /\ last.args[1].tag = "main-path"
    /\ \E r \in RecordsAt(nodeforge, module, 1, 1) : Len(r.points) = MaxPoints
    /\ \A v \in Range(precanvas.connections) : v.pts = 0


\* C21: after removeModule(name) the store has no module called name and
\* moduleRemoved has been dispatched; when name was the active module the
\* active module is Home afterwards and every other module's data is what
\* it was.
C21_RemoveModule ==
    [][last'.op = "removeModule" =>
        LET name == last'.args[1]
        IN /\ ~last'.threw
           /\ name \notin DOMAIN nodeforge'
           /\ "moduleRemoved" \in Range(events')
           /\ module = name
                => (/\ module' = DEFAULT_MODULE
                    /\ \A m \in DOMAIN nodeforge \ {name} :
                          m \in DOMAIN nodeforge' /\ StoreView'[m] = StoreView[m])]_vars

\* C22: updateNodeDataFromId(id, d) on a node of the store leaves the store
\* as it was but for that node's custom data, which is d: every other
\* field of the node, every other node, the ports, the connection records
\* and their points, the set of modules and the active module are what
\* they were, and no import event is dispatched, also when the node has
\* content and the graph is imported again.
C22_DataOnly ==
    [][(last'.op = "updateNodeDataFromId" /\ OwnersOf(last'.args[1].v) # {})
       => (/\ StoreView' = [StoreView EXCEPT
                               ![getModuleFromNodeId(nodeforge, last'.args[1])][last'.args[1].v].data
                                   = last'.args[2]]
           /\ module' = module
           /\ "import" \notin Range(events'))]_vars

\* C22 witness: the data of a node with content was replaced, in a store
\* with two modules whose connection carries points
C22_Witness ==
    /\ last.op = "updateNodeDataFromId"
    /\ ~last.threw
    /\ DOMAIN nodeforge = ModuleNames
    /\ HasNode(nodeforge, DEFAULT_MODULE, last.args[1].v)
    /\ nodeforge[DEFAULT_MODULE][last.args[1].v].html # ""
    /\ heap[nodeforge[DEFAULT_MODULE][last.args[1].v].data] = 1
    /\ Len(nodeforge[DEFAULT_MODULE][1].outputs[1][1].points) = MaxPoints

\* the gestures in progress
Modes == {f \in {"drag", "connection", "drag_point", "editor_selected"} : ui[f]}

\* C23: at most one of drag (node drag), connection (connection draft),
\* drag_point (reroute drag) and editor_selected (pan) is true in every
\* reachable state, whatever the sequence of mousedown, mousemove and
\* mouseup, presses without a release on the container between them
\* included.
C23_OneMode == Cardinality(Modes) <= 1

\* C24: after every dragEnd, whatever gesture was in progress and however
\* it ends (commit, duplicate, self-target, missed target, force_first_input
\* on a node with or without input_1), drag, drag_point, connection and
\* editor_selected are false and ele_selected and connection_ele are null.
C24_IdleAfterDragEnd ==
    [][last'.op = "dragEnd"
       => (/\ ~ui'.drag
           /\ ~ui'.drag_point
           /\ ~ui'.connection
           /\ ~ui'.editor_selected
           /\ ui'.ele_selected = Null
           /\ ~ui'.connection_ele)]_vars

\* C29: with force_first_input on, a draft released on the body of a node
\* T other than the source leaves the source port connected to T's first
\* input port, with both paired records, whenever T has an input port
\* (also when input_1 was removed and other inputs remain); when T has no
\* input port the draft is cancelled and the store is unchanged.
C29_ForceFirstInput ==
    [][(/\ last'.op = "dragEnd"
        /\ ui.connection
        /\ ui.force_first_input
        /\ ui.lastSnapTarget = Null
        /\ forced(Cur, last'.args[1])
        /\ last'.args[1].a # ui.ele_selected.a
        /\ HasNode(nodeforge, module, last'.args[1].a))
       => LET src == ui.ele_selected
              T == last'.args[1].a
              ins == DOMAIN nodeforge[module][T].inputs
          IN IF ins # {}
             THEN /\ CountOut(nodeforge', module, src.a, src.b, T, Min(ins)) = 1
                  /\ CountIn(nodeforge', module, src.a, src.b, T, Min(ins)) = 1
                  /\ Draft \notin Range(precanvas'.connections)
             ELSE /\ nodeforge' = nodeforge
                  /\ Times(events', "connectionCancel") = 1
                  /\ Draft \notin Range(precanvas'.connections)]_vars

\* C25: when the pointer leaves the container (pointerleave, pointerout
\* or pointercancel) in the middle of a node drag, a connection draft, a
\* reroute drag or a pan, the gesture is cancelled: every gesture flag is
\* false afterwards and no draft connection element is left.
C25_LeaveCancels ==
    [][(last'.op \in {"pointerleave", "pointerout", "pointercancel"} /\ Modes # {})
       => (/\ Modes' = {}
           /\ ui'.ele_selected = Null
           /\ ~ui'.connection_ele
           /\ Draft \notin Range(precanvas'.connections))]_vars

\* the store and the active module the listeners of the i-th event e of
\* call s saw satisfy P
SeenAt(s, e, P(_)) == \A i \in DOMAIN s.ev : s.ev[i] = e => P(s.seen[i])

\* the module that holds node k in store nf
Holder(nf, k) == getModuleFromNodeId(nf, Str(k))

\* C26: when a listener is called the store and the active module already
\* show what the event says: on nodeCreated(id) the node is in the store,
\* on nodeRemoved(id) it is not, on connectionCreated both paired records
\* exist, on connectionRemoved neither endpoint lists the connection, on
\* moduleCreated(name) / moduleRemoved(name) the module is there / is not,
\* and on moduleChanged(name) the active module is name.
C26_ListenersSeeStore ==
    [][LET a == last'.args
       IN /\ last'.op = "addNode" =>
               LET r == FreshRef(LiveRefs)
               IN SeenAt(addNode([Cur EXCEPT !.hp[r] = 0], "process", a[1], a[2], r, ""),
                         "nodeCreated", LAMBDA o : HasNode(o.nf, o.mod, nodeId))
          /\ last'.op = "removeNodeId" =>
               SeenAt(removeNodeId(Cur, a[1]), "nodeRemoved",
                      LAMBDA o : ~HasNode(o.nf, Holder(nodeforge, a[1]), a[1]))
          /\ last'.op = "addConnection" =>
               SeenAt(addConnection(Cur, a[1], a[2], a[3], a[4]), "connectionCreated",
                      LAMBDA o : /\ CountOut(o.nf, Holder(nodeforge, a[1].v), a[1].v, a[3], a[2].v, a[4]) >= 1
                                 /\ CountIn(o.nf, Holder(nodeforge, a[1].v), a[1].v, a[3], a[2].v, a[4]) >= 1)
          /\ last'.op = "removeSingleConnection" =>
               SeenAt(removeSingleConnection(Cur, a[1], a[2], a[3], a[4]), "connectionRemoved",
                      LAMBDA o : /\ CountOut(o.nf, Holder(nodeforge, a[1].v), a[1].v, a[3], a[2].v, a[4]) = 0
                                 /\ CountIn(o.nf, Holder(nodeforge, a[1].v), a[1].v, a[3], a[2].v, a[4]) = 0)
          /\ last'.op = "removeNodeInput" =>
               SeenAt(removeNodeInput(Cur, a[1], a[2]), "connectionRemoved",
                      LAMBDA o : \E b \in Ids :
                          /\ CountOut(nodeforge, Holder(nodeforge, a[1].v), b, 1, a[1].v, a[2]) = 1
                          /\ CountOut(o.nf, Holder(nodeforge, a[1].v), b, 1, a[1].v, a[2]) = 0
                          /\ CountIn(o.nf, Holder(nodeforge, a[1].v), b, 1, a[1].v, a[2]) = 0)
          /\ last'.op = "addModule" =>
               SeenAt(addModule(Cur, a[1]), "moduleCreated", LAMBDA o : a[1] \in DOMAIN o.nf)
          /\ last'.op = "removeModule" =>
               SeenAt(removeModule(Cur, a[1]), "moduleRemoved", LAMBDA o : a[1] \notin DOMAIN o.nf)
          /\ last'.op = "changeModule" =>
               SeenAt(changeModule(Cur, a[1]), "moduleChanged", LAMBDA o : o.mod = a[1])]_vars

\* the points list of the output-side record that connection element v
\* stands for, in module mod of store nf
PointsOf(nf, mod, v) ==
    nf[mod][v.out].outputs[v.oc][searchConnection([nf |-> nf, mod |-> mod], PathEl(v)) + 1].points

\* every connection element whose record resolves holds as many point
\* elements as the record has points
PointsMapped(nf, mod, dom) ==
    \A v \in Range(dom.connections) :
        RecordResolves([nf |-> nf, mod |-> mod], PathEl(v)) => v.pts = Len(PointsOf(nf, mod, v))

\* C27: with reroute on, after every press, move, release and double click
\* each connection element has as many point elements as its output-side
\* record has points; a double click on the n-th point element deletes
\* exactly the n-th entry of the points list, and a move of the n-th point
\* element overwrites exactly the n-th entry.
C27_RerouteOrder ==
    [][reroute =>
        /\ PointsMapped(nodeforge', module', precanvas')
        /\ (/\ last'.op = "dblclick"
            /\ last'.args[1].tag = "point"
            /\ ~last'.threw
            /\ RecordResolves(Cur, last'.args[1]))
           => PointsOf(nodeforge', module', ParentVisual(last'.args[1]))
                = RemoveAt(PointsOf(nodeforge, module, ParentVisual(last'.args[1])), last'.args[1].n)
        /\ (/\ last'.op = "position"
            /\ ui.drag_point
            /\ ~last'.threw
            /\ RecordResolves(Cur, ui.ele_selected))
           => \A j \in DOMAIN PointsOf(nodeforge, module, ParentVisual(ui.ele_selected)) :
                 j # ui.ele_selected.n =>
                    PointsOf(nodeforge', module', ParentVisual(ui.ele_selected))[j]
                      = PointsOf(nodeforge, module, ParentVisual(ui.ele_selected))[j]]_vars


\* the positions, in document order, of the input elements that belong to
\* a node other than src and whose centre lies at a distance strictly less
\* than the snap radius from the pointer at p
SnapCandidates(dom, src, p, rect) ==
    LET inputs == querySelectorAllInputs(dom, Ascending(DOMAIN dom.nodes))
    IN {i \in DOMAIN inputs :
           /\ inputs[i].a # src
           /\ distSquared(p[1], p[2], rect[inputs[i]]) < SNAP_RADIUS * SNAP_RADIUS}

\* C28: on every pointer move during a draft the highlighted input is the
\* one, of a node other than the source node, whose centre is nearest to
\* the pointer among those at a distance strictly less than 30; among
\* equidistant ones the first in document order; none when no input is
\* within 30; and never more than one input is highlighted.
C28_MagneticSnap ==
    [][/\ Cardinality(ui'.snap_hover) <= 1
       /\ (/\ last'.op = "position"
           /\ Len(last'.args) = 4
           /\ ui.connection
           /\ ui.connection_ele
           /\ ui.ele_selected.tag = "output")
          => LET p == <<last'.args[2], last'.args[3]>>
                 rect == last'.args[4]
                 inputs == querySelectorAllInputs(precanvas, Ascending(DOMAIN precanvas.nodes))
                 Cand == SnapCandidates(precanvas, ui.ele_selected.a, p, rect)
                 d(i) == distSquared(p[1], p[2], rect[inputs[i]])
             IN /\ Cand = {} => ui'.lastSnapTarget = Null
                /\ Cand # {} =>
                      \E i \in Cand :
                         /\ ui'.lastSnapTarget = inputs[i]
                         /\ \A j \in Cand : d(i) < d(j) \/ (d(i) = d(j) /\ i <= j)
                /\ ui'.snap_hover = IF ui'.lastSnapTarget = Null THEN {} ELSE {ui'.lastSnapTarget}]_vars

\* the pointer has moved during a draft with two inputs of the other node
\* at the same distance within the radius, and one of them is highlighted
C28_Witness ==
    /\ last.op = "position"
    /\ Len(last.args) = 4
    /\ ui.connection
    /\ ui.lastSnapTarget # Null
    /\ LET p == <<last.args[2], last.args[3]>>
           rect == last.args[4]
           inputs == querySelectorAllInputs(precanvas, Ascending(DOMAIN precanvas.nodes))
           Cand == SnapCandidates(precanvas, ui.ele_selected.a, p, rect)
       IN \E i, j \in Cand :
             /\ i # j
             /\ distSquared(p[1], p[2], rect[inputs[i]]) = distSquared(p[1], p[2], rect[inputs[j]])


\* C30: updateConnectionNodes never throws, whatever node, port or
\* connection elements the canvas holds.
C30_RefreshNeverThrows ==
    [][last'.op = "updateConnectionNodes" => ~last'.threw]_vars


\* the node element of k shows exactly the ports of node k's record in
\* module m: one element per input key and per output key, named alike
PortsProjected(nf, m, dom, k) ==
    /\ k \in DOMAIN dom.nodes
    /\ Len(dom.nodes[k].inputs) = Cardinality(DOMAIN nf[m][k].inputs)
    /\ Range(dom.nodes[k].inputs) = DOMAIN nf[m][k].inputs
    /\ Len(dom.nodes[k].outputs) = Cardinality(DOMAIN nf[m][k].outputs)
    /\ Range(dom.nodes[k].outputs) = DOMAIN nf[m][k].outputs

\* C31: after an import that completes, every node of the active module is
\* rendered with exactly the input port names and the output port names of
\* its store record, records whose port numbering has gaps included.
C31_PortProjection ==
    [][(last'.op \in {"import", "importExport", "changeModule", "updateNodeDataFromId"} /\ ~last'.threw)
       => \A k \in DOMAIN nodeforge'[module'] :
             PortsProjected(nodeforge', module', precanvas', k)]_vars


\* how many committed connection elements of the canvas stand for the
\* connection from output p of node a to input q of node b
VisualCount(dom, a, p, b, q) ==
    Cardinality({i \in DOMAIN dom.connections :
                    /\ dom.connections[i] # Draft
                    /\ dom.connections[i].out = a /\ dom.connections[i].oc = p
                    /\ dom.connections[i].in = b /\ dom.connections[i].ic = q})

\* how many output-side records of module m say the same
RecordCount(nf, m, a, p, b, q) ==
    IF HasNode(nf, m, a) /\ p \in DOMAIN nf[m][a].outputs
    THEN Cardinality({j \in DOMAIN nf[m][a].outputs[p] :
                         /\ nf[m][a].outputs[p][j].node.v = b
                         /\ nf[m][a].outputs[p][j].output = q})
    ELSE 0

\* C32: after every call that completes, the committed connection elements
\* of the canvas and the output-side records of the active module
\* correspond one to one: for every source node, source port, target node
\* and target port there are as many elements as records.
C32_ConnectionProjection ==
    [][~last'.threw =>
        \A a \in 1..MaxId, b \in 1..MaxId, p \in 1..MaxPort, q \in 1..MaxPort :
            VisualCount(precanvas', a, p, b, q) = RecordCount(nodeforge', module', a, p, b, q)]_vars


\* C33: changeModule(name) for a module of the store makes name the active
\* module, sets the zoom to 1 and the canvas offset to 0, dispatches
\* moduleChanged and no import event, and leaves the content of every
\* module as it was.
C33_ChangeModule ==
    [][(last'.op = "changeModule" /\ last'.args[1] \in DOMAIN nodeforge)
       => /\ module' = last'.args[1]
          /\ ui'.zoom = ZOOM_DEFAULT
          /\ ui'.canvas_x = 0
          /\ "moduleChanged" \in Range(events')
          /\ "import" \notin Range(events')
          /\ StoreView' = StoreView]_vars

\* the active module has just been changed to a module with nodes, away
\* from a module with a connection, and the view is at its defaults
C33_Witness ==
    /\ last.op = "changeModule"
    /\ module = "Other"
    /\ DOMAIN nodeforge["Other"] # {}
    /\ OutRecords(nodeforge) > 0
    /\ ui.zoom = ZOOM_DEFAULT
    /\ ui.canvas_x = 0


\* C34: after every call the active module is a key of the store, and an
\* addNode completes and stores its node in the active module.
C34_ActiveModuleValid ==
    [][/\ module' \in DOMAIN nodeforge'
       /\ last'.op = "addNode"
            => (~last'.threw /\ HasNode(nodeforge', module', nodeId))]_vars


\* C35: after every pointer and keyboard event node_selected and
\* connection_selected are not both set; a press that selects a node leaves
\* no connection selected and a press that selects a connection leaves no
\* node selected.
C35_SelectionExclusive ==
    [][/\ ~(ui'.node_selected # Null /\ ui'.connection_selected # Null)
       /\ (last'.op = "click" /\ ui'.node_selected # Null /\ ui'.node_selected # ui.node_selected)
            => ui'.connection_selected = Null
       /\ (last'.op = "click" /\ ui'.connection_selected # Null /\ ui'.connection_selected # ui.connection_selected)
            => ui'.node_selected = Null]_vars

\* a connection has just been selected by a press on its path in an editor
\* with two nodes
C35_Witness ==
    /\ last.op = "click"
    /\ last.args[1].tag = "main-path"
    /\ ui.connection_selected = last.args[1]
    /\ ui.node_selected = Null
    /\ Cardinality(DOMAIN precanvas.nodes) = 2


\* C36: after every call a selected node is a node of the active module
\* and a selected connection has its record in the active module; a Delete
\* key press changes no module but the active one.
C36_SelectionValid ==
    [][/\ ui'.node_selected # Null => HasNode(nodeforge', module', ui'.node_selected.a)
       /\ ui'.connection_selected # Null
            => RecordResolves([nf |-> nodeforge', mod |-> module'], ui'.connection_selected)
       /\ last'.op = "key"
            => (/\ ~last'.threw
                /\ \A m \in DOMAIN nodeforge \ {module} :
                      m \in DOMAIN nodeforge' /\ nodeforge'[m] = nodeforge[m])]_vars


\* C37: removeConnection() with a connection selected completes,
\* dispatches one connectionRemoved, removes the output-side and the
\* input-side record of that connection where they exist, and leaves the
\* number of records of every other connection as it was.
C37_RemoveConnection ==
    [][(last'.op = "removeConnection" /\ ui.connection_selected # Null)
       => LET e == ui.connection_selected
              Minus(n, hit) == IF hit /\ n > 0 THEN n - 1 ELSE n
          IN /\ ~last'.threw
             /\ events' = <<"connectionRemoved">>
             /\ \A a \in 1..MaxId, b \in 1..MaxId, p \in 1..MaxPort, q \in 1..MaxPort :
                   LET hit == a = e.b /\ p = e.c /\ b = e.a /\ q = e.d
                   IN /\ CountOut(nodeforge', module, a, p, b, q)
                           = Minus(CountOut(nodeforge, module, a, p, b, q), hit)
                      /\ CountIn(nodeforge', module, a, p, b, q)
                           = Minus(CountIn(nodeforge, module, a, p, b, q), hit)]_vars

\* C38: a dispatch runs every function that was in the event's listeners
\* array when the dispatch began, once each and in the array's order, whatever
\* the functions remove from the array while the dispatch runs.
C38_DispatchAll ==
    [][last'.op = "dispatch" =>
         last'.args[2].ids = [i \in 1..Len(last'.args[2].start) |-> last'.args[2].start[i].id]]_vars


\* the uncommitted draft visuals on the canvas
DraftCount(dom) == Cardinality({i \in DOMAIN dom.connections : dom.connections[i] = Draft})

\* C39: the canvas never holds more than one draft visual, and while no
\* connection draft is in progress it holds none and no port carries the
\* snap highlight.
C39_TransientVisuals ==
    /\ DraftCount(precanvas) <= 1
    /\ ~ui.connection => DraftCount(precanvas) = 0 /\ ui.snap_hover = {}


\* C40: addModule with the name of a module the store already has leaves
\* the data of every module as it was.
C40_AddModuleExisting ==
    [][(last'.op = "addModule" /\ last'.args[1] \in DOMAIN nodeforge)
          => nodeforge' = nodeforge]_vars

====
